---- MODULE Spec2Model ----
(***************************************************************************)
(* Model of the control core of the mini air-quality station:              *)
(*   - util.ResettableTimer and util.RepeatTimer (threading.Timer          *)
(*     subclasses), one waiter thread per timer;                           *)
(*   - util.Switch, the debounced push button built on two                 *)
(*     ResettableTimers;                                                   *)
(*   - menu.MenuList, the scrolling list of the menu engine;               *)
(*   - menu.Interface over a menu tree, with display.Terminal batching;    *)
(*   - util.ConfigManager, the cached config store, over one config file;  *)
(*   - the locks of these classes and the call paths that take them.       *)
(*                                                                         *)
(* Time is a discrete clock `now`.  A thread step takes no time: the clock *)
(* advances (Tick) only when every thread is blocked, and never past the   *)
(* deadline of a timed wait that has not yet timed out.  All interleavings *)
(* of the steps that fall on one instant are explored.                     *)
(***************************************************************************)
EXTENDS Integers, Sequences, FiniteSets, TLC

\* ------------------------------------------------------------------ bounds
MaxTime == 9            \* the clock runs over 0 .. MaxTime
MaxInterval == 2        \* reset(interval) draws its argument from 1 .. MaxInterval
MaxResets == 3          \* reset() calls of the test caller within one countdown
MaxCancels == 2         \* cancel() calls of the test caller on one timer
DebounceTicks == 2      \* Switch(debounce=...), in clock ticks
LongPushTicks == 3      \* Switch(long_push_time=...), in clock ticks
MaxEdges == 4           \* raw edges the pin delivers
MaxN == 10              \* children of a MenuList
MaxR == 4               \* rows of the display

NoTime == 0 - 1         \* "no time recorded"
NoIndex == 0 - 1        \* "no index"
None == 0               \* reset(interval=None)

VARIABLES
    now,            \* the clock
    timer,          \* ResettableTimer objects: timer id -> fields and waiter position
    hist,           \* per ResettableTimer: what its callers asked and what it did
    rtimer,         \* the RepeatTimer object, its waiter and its caller
    current_state,  \* Switch.current_state, the committed logical state
    rawLevel,       \* level of the pin
    edge_pc,        \* position of the pigpio callback thread inside Switch.edge_change
    events,         \* what the switch emitted: <<kind, time>>
    sw,             \* history of the raw edges of the switch, and the position
                    \* of the thread that calls Switch.clean
    menu,           \* MenuList: number of children, selected, start_row
    rows,           \* ScreenDisplay.rows
    draws,          \* display calls issued by the last step
    screen,         \* what the terminal of the MenuList shows, and its cursor row
    downs,          \* Key.DOWN presses, and nothing else, since selected = start_row = 0
    nav,            \* Interface: _current_menu, display_off, view
    lists,          \* per MenuList of the tree: selected, start_row
    freq,           \* the FreqencyChoice node: current_frequency, new_frequency
    on_off,         \* the OnOffConfig leaf: on_off
    thr,            \* threads that call into Interface: position and arguments
    ilock,          \* Interface._lock, an RLock: owner and depth
    disp,           \* Terminal: context_manager_depth, backing image, device
    display_config, \* which entry of ConfigManager the callers use
    file,           \* the config file: content, st_mtime, being rewritten or not
    cache,          \* the ConfigCache entry: config, st_mtime, file_lock depth
    cfg_lock,       \* ConfigManager._lock, an RLock: owner and depth
    cthr,           \* threads that call ConfigManager: position and locals
    observed,       \* the config watcher of Device: its position, last_mtime,
                    \* the sensor timers' intervals, what its last read found
    want,           \* the table the updates made so far should have produced
    faults,         \* the external changes and I/O failures so far
    lk              \* per thread of the process: the lock operations still to
                    \* come on its call path, and the locks it holds

timerVars == <<timer, hist>>
switchVars == <<current_state, rawLevel, edge_pc, events, sw>>
menuVars == <<menu, rows, draws, screen, downs>>
ifaceVars == <<nav, lists, freq, on_off, thr, ilock, disp>>
cfgVars == <<display_config, file, cache, cfg_lock, cthr, observed, want, faults>>
vars == <<now, timer, hist, rtimer, current_state, rawLevel, edge_pc, events, sw,
          menu, rows, draws, screen, downs, nav, lists, freq, on_off, thr, ilock, disp,
          display_config, file, cache, cfg_lock, cthr, observed, want, faults, lk>>

\* The ResettableTimer objects: "T" is driven by a test caller, "deb" and "long"
\* are Switch._debounce_timer and Switch._long_timer.
RTimers == {"T", "deb", "long"}

\* ------------------------------------------------- ResettableTimer (object)
\* pc is the position of the waiter thread in run():
\*   "unstarted"      start() was not called
\*   "finished_wait"  in `self.finished.wait()`
\*   "lock"           finished.wait() returned True, entering `with self._function_wait`
\*   "cond_wait"      in `self._function_wait.wait(self.interval)`
\*   "call"           the wait timed out, about to call self.function
\*   "exited"         run() returned
ResettableTimer_init(iv, started) ==
    [pc |-> IF started THEN "finished_wait" ELSE "unstarted",
     finished |-> FALSE, end |-> FALSE, interval |-> iv,
     notified |-> FALSE, deadline |-> NoTime]

\* Condition.notify(): wakes the waiter if it is inside Condition.wait, else nothing.
Notify(tm) == IF tm.pc = "cond_wait" THEN [tm EXCEPT !.notified = TRUE] ELSE tm

\* Faulty variants of cancel(): without the notify; written as a toggle of _end;
\* one that only notifies.
CancelOnlyNotifies(tm) == Notify(tm)
CancelNoNotify(tm) == [tm EXCEPT !.finished = TRUE, !.end = TRUE]
CancelToggle(tm) == [Notify(tm) EXCEPT !.finished = TRUE, !.end = ~tm.end]
ResettableTimer_cancel(tm) == [Notify(tm) EXCEPT !.finished = TRUE, !.end = TRUE]

ResettableTimer_stop(tm) == Notify(tm)

\* Faulty variant of reset(): without the notify, the running wait is not cut short.
ResetNoNotify(tm, iv) ==
    [tm EXCEPT !.interval = IF iv = None THEN @ ELSE iv, !.finished = TRUE]
ResettableTimer_reset(tm, iv) ==
    [Notify([tm EXCEPT !.interval = IF iv = None THEN @ ELSE iv]) EXCEPT !.finished = TRUE]

\* No countdown is pending or in progress: the waiter sits in finished.wait().
Quiescent(tm) == tm.pc = "finished_wait" /\ ~tm.finished /\ ~tm.end

\* The waiter cannot take a step now.
TimerBlocked(tm) ==
    \/ tm.pc \in {"unstarted", "exited"}
    \/ tm.pc = "finished_wait" /\ ~tm.finished
    \/ tm.pc = "cond_wait" /\ ~tm.notified /\ now < tm.deadline

\* ------------------------------------------------ history of a timer's use
\* burst: how the reset() calls of the current countdown arrived
\*   "none"    no reset yet
\*   "strict"  every reset arrived strictly before the pending countdown expired
\*   "raced"   as "strict", but one reset arrived at the instant of expiry
\*   "dirty"   anything else (a stop, a cancel, a reset after the action ran)
\* due: (time of the last reset) + interval;  count: invocations of the action
\* since the last reset;  firedAt: time of the last invocation.
HistInit ==
    [burst |-> "none", due |-> NoTime, count |-> 0, firedAt |-> NoTime,
     stopped |-> FALSE, resets |-> 0, cancels |-> 0]

HistReset(h, tm, iv) ==
    LET newIv == IF iv = None THEN tm.interval ELSE iv
        live == h.burst \in {"strict", "raced"} /\ h.count = 0
    IN [h EXCEPT
          !.burst = IF Quiescent(tm) THEN "strict"
                    ELSE IF live /\ now < h.due THEN h.burst
                    ELSE IF live /\ now = h.due THEN "raced"
                    ELSE "dirty",
          !.resets = IF Quiescent(tm) THEN 1 ELSE h.resets + 1,
          !.due = now + newIv, !.count = 0, !.firedAt = NoTime, !.stopped = FALSE]

HistStop(h) == [h EXCEPT !.burst = "dirty", !.stopped = TRUE]

HistCancel(h) == [h EXCEPT !.burst = "dirty", !.cancels = h.cancels + 1]

HistFire(h) == [h EXCEPT !.count = h.count + 1, !.firedAt = now]

\* ------------------------------------------- ResettableTimer.run (waiter)
\* `while self.finished.wait():` returns once finished is set.
Wake(t) ==
    /\ timer[t].pc = "finished_wait"
    /\ timer[t].finished
    /\ timer' = [timer EXCEPT ![t].pc = "lock"]
    /\ UNCHANGED <<now, lk, hist, rtimer, switchVars, menuVars, ifaceVars, cfgVars>>

\* Faulty variant of the step below: without the `if self._end: break`.
ArmIgnoringEnd(t) ==
    /\ timer[t].pc = "lock"
    /\ timer' = [timer EXCEPT ![t].finished = FALSE, ![t].pc = "cond_wait",
                              ![t].notified = FALSE,
                              ![t].deadline = now + timer[t].interval]
    /\ UNCHANGED <<now, lk, hist, rtimer, switchVars, menuVars, ifaceVars, cfgVars>>

\* `with self._function_wait: if self._end: break; self.finished.clear();
\*  ... self._function_wait.wait(self.interval)` up to the release of the lock
\* inside Condition.wait.
Arm(t) ==
    /\ timer[t].pc = "lock"
    /\ IF timer[t].end
       THEN timer' = [timer EXCEPT ![t].pc = "exited"]
       ELSE timer' = [timer EXCEPT ![t].finished = FALSE, ![t].pc = "cond_wait",
                                   ![t].notified = FALSE,
                                   ![t].deadline = now + timer[t].interval]
    /\ UNCHANGED <<now, lk, hist, rtimer, switchVars, menuVars, ifaceVars, cfgVars>>

\* Condition.wait returned True (notified): finished_wait = False, loop again.
Notified(t) ==
    /\ timer[t].pc = "cond_wait"
    /\ timer[t].notified
    /\ timer' = [timer EXCEPT ![t].pc = "finished_wait", ![t].notified = FALSE,
                              ![t].deadline = NoTime]
    /\ UNCHANGED <<now, lk, hist, rtimer, switchVars, menuVars, ifaceVars, cfgVars>>

\* Condition.wait timed out and returned False: finished_wait = True.  Whatever
\* a caller does from here on (notify, finished.set, _end) the action is called.
Timeout(t) ==
    /\ timer[t].pc = "cond_wait"
    /\ ~timer[t].notified
    /\ now >= timer[t].deadline
    /\ timer' = [timer EXCEPT ![t].pc = "call", ![t].deadline = NoTime]
    /\ UNCHANGED <<now, lk, hist, rtimer, switchVars, menuVars, ifaceVars, cfgVars>>

\* `self.function(*self.args, **self.kwargs)` of the timer of the test caller.
Fire(t) ==
    /\ timer[t].pc = "call"
    /\ timer' = [timer EXCEPT ![t].pc = "finished_wait"]
    /\ hist' = [hist EXCEPT ![t] = HistFire(@)]
    /\ UNCHANGED <<now, lk, rtimer, switchVars, menuVars, ifaceVars, cfgVars>>

\* ----------------------------------- calls on a ResettableTimer by a caller
CallReset(t, iv) ==
    /\ timer[t].pc # "unstarted"
    /\ Quiescent(timer[t]) \/ hist[t].resets < MaxResets
    /\ timer' = [timer EXCEPT ![t] = ResettableTimer_reset(@, iv)]
    /\ hist' = [hist EXCEPT ![t] = HistReset(@, timer[t], iv)]
    /\ UNCHANGED <<now, lk, rtimer, switchVars, menuVars, ifaceVars, cfgVars>>

CallStop(t) ==
    /\ timer[t].pc # "unstarted"
    /\ timer' = [timer EXCEPT ![t] = ResettableTimer_stop(@)]
    /\ hist' = [hist EXCEPT ![t] = HistStop(@)]
    /\ UNCHANGED <<now, lk, rtimer, switchVars, menuVars, ifaceVars, cfgVars>>

CallCancel(t) ==
    /\ timer[t].pc # "unstarted"
    /\ hist[t].cancels < MaxCancels
    /\ timer' = [timer EXCEPT ![t] = ResettableTimer_cancel(@)]
    /\ hist' = [hist EXCEPT ![t] = HistCancel(@)]
    /\ UNCHANGED <<now, lk, rtimer, switchVars, menuVars, ifaceVars, cfgVars>>

\* ------------------------------------------------------------ RepeatTimer
\* pc is the position of the waiter thread in run():
\*   "check"  at `while not self.stop`
\*   "wait"   in `self.finished.wait(self.interval)`
\*   "call"   the wait timed out, about to call self.function
\*   "clear"  at `self.finished.clear()`
\* cpc is the position of the thread that calls cancel(): cancel() writes
\* self.stop and then sets finished, with no lock around the two writes.
\* count counts the calls of the action, cancels the cancel() calls that
\* returned; was_reset says that the test caller has called reset().
RepeatTimer_init(iv, started) ==
    [pc |-> IF started THEN "check" ELSE "unstarted",
     stop |-> FALSE, finished |-> FALSE, interval |-> iv, deadline |-> NoTime,
     cpc |-> "idle", count |-> 0, cancels |-> 0, was_reset |-> FALSE]

RepeatBlocked(r) ==
    \/ r.pc \in {"unstarted", "exited"}
    \/ r.pc = "wait" /\ ~r.finished /\ now < r.deadline

\* `while not self.stop:` and the start of `self.finished.wait(self.interval)`.
RepeatCheck ==
    /\ rtimer.pc = "check"
    /\ rtimer' = IF rtimer.stop
                 THEN [rtimer EXCEPT !.pc = "exited"]
                 ELSE [rtimer EXCEPT !.pc = "wait", !.deadline = now + rtimer.interval]
    /\ UNCHANGED <<now, lk, timerVars, switchVars, menuVars, ifaceVars, cfgVars>>

\* finished.wait(interval) returned True: the action is skipped.
RepeatWake ==
    /\ rtimer.pc = "wait"
    /\ rtimer.finished
    /\ rtimer' = [rtimer EXCEPT !.pc = "clear", !.deadline = NoTime]
    /\ UNCHANGED <<now, lk, timerVars, switchVars, menuVars, ifaceVars, cfgVars>>

\* finished.wait(interval) timed out and returned False.
RepeatTimeout ==
    /\ rtimer.pc = "wait"
    /\ ~rtimer.finished
    /\ now >= rtimer.deadline
    /\ rtimer' = [rtimer EXCEPT !.pc = "call", !.deadline = NoTime]
    /\ UNCHANGED <<now, lk, timerVars, switchVars, menuVars, ifaceVars, cfgVars>>

RepeatFire ==
    /\ rtimer.pc = "call"
    /\ rtimer' = [rtimer EXCEPT !.pc = "clear", !.count = rtimer.count + 1]
    /\ UNCHANGED <<now, lk, timerVars, switchVars, menuVars, ifaceVars, cfgVars>>

RepeatClear ==
    /\ rtimer.pc = "clear"
    /\ rtimer' = [rtimer EXCEPT !.pc = "check", !.finished = FALSE]
    /\ UNCHANGED <<now, lk, timerVars, switchVars, menuVars, ifaceVars, cfgVars>>

\* Faulty variant: finished is not set.
RepeatResetNoSet(r, iv) == [r EXCEPT !.interval = IF iv = None THEN @ ELSE iv]
\* reset(new_interval)
RepeatTimer_reset(r, iv) ==
    [r EXCEPT !.interval = IF iv = None THEN @ ELSE iv, !.finished = TRUE]

RepeatCallReset(iv) ==
    /\ rtimer.pc # "unstarted"
    /\ rtimer.cpc = "idle"
    /\ rtimer' = [RepeatTimer_reset(rtimer, iv) EXCEPT !.was_reset = TRUE]
    /\ UNCHANGED <<now, lk, timerVars, switchVars, menuVars, ifaceVars, cfgVars>>

\* Faulty variant: `self.stop = not self.stop`.
RepeatCancelToggle(r) == [r EXCEPT !.stop = ~r.stop, !.cpc = "set"]
\* cancel(): `self.stop = True`
RepeatTimer_cancel_stop(r) == [r EXCEPT !.stop = TRUE, !.cpc = "set"]

\* Faulty variant: cancel() returns without setting finished.
RepeatCancelNoSet(r) == [r EXCEPT !.cpc = "idle", !.cancels = r.cancels + 1]
\* cancel(): `super().cancel()`, which is `self.finished.set()`; cancel returns.
RepeatTimer_cancel_set(r) ==
    [r EXCEPT !.finished = TRUE, !.cpc = "idle", !.cancels = r.cancels + 1]

RepeatCancelStop ==
    /\ rtimer.pc # "unstarted"
    /\ rtimer.cpc = "idle"
    /\ rtimer.cancels < MaxCancels
    /\ rtimer' = RepeatTimer_cancel_stop(rtimer)
    /\ UNCHANGED <<now, lk, timerVars, switchVars, menuVars, ifaceVars, cfgVars>>

RepeatCancelSet ==
    /\ rtimer.cpc = "set"
    /\ rtimer' = RepeatTimer_cancel_set(rtimer)
    /\ UNCHANGED <<now, lk, timerVars, switchVars, menuVars, ifaceVars, cfgVars>>

\* ------------------------------------------------------------------ clock
Tick ==
    /\ now < MaxTime
    /\ \A t \in RTimers : TimerBlocked(timer[t])
    /\ RepeatBlocked(rtimer)
    /\ rtimer.cpc = "idle"
    /\ edge_pc = "idle"
    /\ \/ sw.clean \in {"none", "done"}
       \/ /\ sw.clean = "join_deb"
          /\ timer["deb"].pc # "exited"
          /\ now < sw.joinBy
       \/ /\ sw.clean = "join_long"
          /\ timer["long"].pc # "exited"
          /\ now < sw.joinBy
    /\ now' = now + 1
    /\ UNCHANGED <<lk, timerVars, rtimer, switchVars, menuVars, ifaceVars, cfgVars>>

\* ------------------------------------------------------------------------
\* The locks of the process and the threads that take them.
\*
\* Locks: Switch._lock ("switch", a threading.Lock), the Condition of each
\* ResettableTimer ("deb_cond", "long_cond": ResettableTimer._function_wait,
\* over an RLock), Interface._lock ("nav", an RLock), the batch scope of the
\* display ("batch", Terminal.__enter__ / __exit__, a depth counter that never
\* blocks), ConfigManager._lock ("cfg", an RLock) and the FileLock of the
\* sensor config ("file", flock on the lock file, re-entered by depth).
\* RepeatTimer declares no lock.  The display config has nullcontext() in the
\* place of the FileLock.
\*
\* Threads: the pigpio callback thread ("edge"), the waiter of the debounce
\* timer ("deb"), of the long-press timer ("long") and of the view timer
\* ("view"), the thread that tears the switch down ("main") and a thread of
\* another process that works on the sensor config under the same lock file
\* ("peer").
\*
\* A call path is the sequence of lock operations one call makes, read off
\* the `with` statements on it: <<"acq", l>> enters `with l`, <<"rel", l>>
\* leaves it, <<"wait", l>> is Condition.wait releasing l (the <<"acq", l>>
\* after it is wait re-acquiring l before it returns), <<"io", what>> is a
\* blocking file operation and <<"call", l>> is run() invoking the action of
\* the timer whose Condition is l ("none" for a RepeatTimer).

\* run() invokes the action inside `with self._function_wait`.
LockPathsCallUnderLock ==
    LET With(l, body) == <<<<"acq", l>>>> \o body \o <<<<"rel", l>>>>
        Io(what) == <<<<"io", what>>>>
        FileScope(dc, body) == IF dc THEN body ELSE With("file", body)
        GetConfigCall(dc, load) ==
            With("cfg", IF load THEN FileScope(dc, Io("read")) ELSE <<>>)
        GetValueCall(dc, load) == With("cfg", GetConfigCall(dc, load))
        UpdateValues(dc, load) ==
            With("cfg", FileScope(dc, GetConfigCall(dc, load) \o Io("write")))
        DisplayViewCall(load) == With("nav", With("batch", GetValueCall(TRUE, load)))
        ShowDataCall(load) == With("nav", GetValueCall(TRUE, load) \o DisplayViewCall(load))
        KeyPressCall(body) == With("nav", With("batch", body))
        Signal(c) == With(c, <<>>)
        TurnNotified(c) == <<<<"acq", c>>, <<"wait", c>>, <<"acq", c>>, <<"rel", c>>>>
        TurnTimedOut(c, action) ==
            <<<<"acq", c>>, <<"wait", c>>, <<"acq", c>>, <<"call", c>>>>
                \o action \o <<<<"rel", c>>>>
        Pressed(body) == KeyPressCall(body) \o Signal("long_cond")
    IN  [edge |-> {With("switch", Signal("deb_cond")), With("switch", <<>>)},
         deb |-> {Signal("deb_cond"), TurnNotified("deb_cond"),
                  TurnTimedOut("deb_cond", Signal("long_cond")),
                  TurnTimedOut("deb_cond", Pressed(ShowDataCall(FALSE))),
                  TurnTimedOut("deb_cond", Pressed(UpdateValues(FALSE, TRUE))),
                  TurnTimedOut("deb_cond", Pressed(UpdateValues(TRUE, FALSE)))},
         long |-> {Signal("long_cond"), TurnNotified("long_cond"),
                   TurnTimedOut("long_cond", KeyPressCall(<<>>))},
         view |-> {<<<<"call", "none">>>> \o With("nav", <<>>),
                   <<<<"call", "none">>>> \o With("nav", DisplayViewCall(TRUE))},
         main |-> {Signal("deb_cond") \o Signal("long_cond")},
         peer |-> {With("file", Io("write"))}]

\* update_config_values enters the FileLock before ConfigManager._lock.
LockPathsFileBeforeConfig ==
    LET With(l, body) == <<<<"acq", l>>>> \o body \o <<<<"rel", l>>>>
        Io(what) == <<<<"io", what>>>>
        FileScope(dc, body) == IF dc THEN body ELSE With("file", body)
        GetConfigCall(dc, load) ==
            With("cfg", IF load THEN FileScope(dc, Io("read")) ELSE <<>>)
        GetValueCall(dc, load) == With("cfg", GetConfigCall(dc, load))
        UpdateValues(dc, load) ==
            FileScope(dc, With("cfg", GetConfigCall(dc, load) \o Io("write")))
        DisplayViewCall(load) == With("nav", With("batch", GetValueCall(TRUE, load)))
        ShowDataCall(load) == With("nav", GetValueCall(TRUE, load) \o DisplayViewCall(load))
        KeyPressCall(body) == With("nav", With("batch", body))
        Signal(c) == With(c, <<>>)
        TurnNotified(c) == <<<<"acq", c>>, <<"wait", c>>, <<"acq", c>>, <<"rel", c>>>>
        TurnTimedOut(c, action) == TurnNotified(c) \o <<<<"call", c>>>> \o action
        Pressed(body) == KeyPressCall(body) \o Signal("long_cond")
    IN  [edge |-> {With("switch", Signal("deb_cond")), With("switch", <<>>)},
         deb |-> {Signal("deb_cond"), TurnNotified("deb_cond"),
                  TurnTimedOut("deb_cond", Signal("long_cond")),
                  TurnTimedOut("deb_cond", Pressed(ShowDataCall(FALSE))),
                  TurnTimedOut("deb_cond", Pressed(UpdateValues(FALSE, TRUE))),
                  TurnTimedOut("deb_cond", Pressed(UpdateValues(TRUE, FALSE)))},
         long |-> {Signal("long_cond"), TurnNotified("long_cond"),
                   TurnTimedOut("long_cond", KeyPressCall(<<>>))},
         view |-> {<<<<"call", "none">>>> \o With("nav", <<>>),
                   <<<<"call", "none">>>> \o With("nav", DisplayViewCall(TRUE))},
         main |-> {Signal("deb_cond") \o Signal("long_cond")},
         peer |-> {With("file", Io("write"))}]

\* The call paths of each thread.
\*   With             a `with l:` block
\*   FileScope        `with cache["file_lock"]`: the FileLock of the sensor
\*                    config, nullcontext() of the display config
\*   GetConfigCall    ConfigManager._get_config: reads the file (load) or
\*                    serves the cache
\*   GetValueCall     ConfigManager.get_config_value
\*   UpdateValues     ConfigManager.update_config_values
\*   DisplayViewCall  Interface.display_view, which reads the display config
\*   ShowDataCall     Interface.show_data
\*   KeyPressCall     Interface.key_press around what the key does: show_data
\*                    (waking, leaving the menu), the update of FreqencyChoice
\*                    (sensor config), the update of OnOffConfig (display
\*                    config), or nothing that locks (a long press)
\*   Signal           ResettableTimer.reset / stop / cancel
\*   TurnNotified     one turn of ResettableTimer.run whose wait was notified
\*   TurnTimedOut     one turn of ResettableTimer.run whose wait timed out:
\*                    the action is called after the `with` block is left
\*   Pressed          Switch.change_state to pressed: the callback, then
\*                    _long_timer.reset(); to released it is _long_timer.stop()
\* "edge" runs Switch.edge_change, "main" Switch.clean, "view" the turn of
\* RepeatTimer.run that calls Interface.next_view.  stat() calls are left
\* out.  The sensor timers take Sensor._lock and then InfluxDatabase._lock,
\* each alone and neither shared with these threads.
LockPaths ==
    LET With(l, body) == <<<<"acq", l>>>> \o body \o <<<<"rel", l>>>>
        Io(what) == <<<<"io", what>>>>
        FileScope(dc, body) == IF dc THEN body ELSE With("file", body)
        GetConfigCall(dc, load) ==
            With("cfg", IF load THEN FileScope(dc, Io("read")) ELSE <<>>)
        GetValueCall(dc, load) == With("cfg", GetConfigCall(dc, load))
        UpdateValues(dc, load) ==
            With("cfg", FileScope(dc, GetConfigCall(dc, load) \o Io("write")))
        DisplayViewCall(load) == With("nav", With("batch", GetValueCall(TRUE, load)))
        ShowDataCall(load) == With("nav", GetValueCall(TRUE, load) \o DisplayViewCall(load))
        KeyPressCall(body) == With("nav", With("batch", body))
        Signal(c) == With(c, <<>>)
        TurnNotified(c) == <<<<"acq", c>>, <<"wait", c>>, <<"acq", c>>, <<"rel", c>>>>
        TurnTimedOut(c, action) == TurnNotified(c) \o <<<<"call", c>>>> \o action
        Pressed(body) == KeyPressCall(body) \o Signal("long_cond")
    IN  [edge |-> {With("switch", Signal("deb_cond")), With("switch", <<>>)},
         deb |-> {Signal("deb_cond"), TurnNotified("deb_cond"),
                  TurnTimedOut("deb_cond", Signal("long_cond")),
                  TurnTimedOut("deb_cond", Pressed(ShowDataCall(FALSE))),
                  TurnTimedOut("deb_cond", Pressed(UpdateValues(FALSE, TRUE))),
                  TurnTimedOut("deb_cond", Pressed(UpdateValues(TRUE, FALSE)))},
         long |-> {Signal("long_cond"), TurnNotified("long_cond"),
                   TurnTimedOut("long_cond", KeyPressCall(<<>>))},
         view |-> {<<<<"call", "none">>>> \o With("nav", <<>>),
                   <<<<"call", "none">>>> \o With("nav", DisplayViewCall(TRUE))},
         main |-> {Signal("deb_cond") \o Signal("long_cond")},
         peer |-> {With("file", Io("write"))}]

\* No thread is inside a call and no lock is held.
LocksIdle == [th \in DOMAIN LockPaths |-> [prog |-> <<>>, held |-> <<>>]]

\* Whether thread th gets lock l at once: no other thread holds it, and th
\* does not hold it either when l is Switch._lock, which is not re-entrant.
LockFree(th, l) ==
    /\ \A o \in (DOMAIN LockPaths) \ {th} :
          \A i \in 1..Len(lk[o].held) : lk[o].held[i] # l
    /\ l = "switch" => \A i \in 1..Len(lk[th].held) : lk[th].held[i] # l

\* A thread that is in no call makes one of its calls.
PathBegin(th) ==
    /\ lk[th].prog = <<>>
    /\ \E p \in LockPaths[th] : lk' = [lk EXCEPT ![th].prog = p]
    /\ UNCHANGED <<now, timerVars, rtimer, switchVars, menuVars, ifaceVars, cfgVars>>

\* Entering a `with` block, or Condition.wait taking its lock again: the
\* thread goes on once the lock is free.
PathAcquire(th) ==
    /\ lk[th].prog # <<>>
    /\ Head(lk[th].prog)[1] = "acq"
    /\ LockFree(th, Head(lk[th].prog)[2])
    /\ lk' = [lk EXCEPT ![th].prog = Tail(@),
                        ![th].held = Append(@, Head(lk[th].prog)[2])]
    /\ UNCHANGED <<now, timerVars, rtimer, switchVars, menuVars, ifaceVars, cfgVars>>

\* Leaving a `with` block, or Condition.wait giving its lock up: the lock
\* entered last is the one released.
PathRelease(th) ==
    /\ lk[th].prog # <<>>
    /\ Head(lk[th].prog)[1] \in {"rel", "wait"}
    /\ lk[th].held # <<>>
    /\ lk[th].held[Len(lk[th].held)] = Head(lk[th].prog)[2]
    /\ lk' = [lk EXCEPT ![th].prog = Tail(@),
                        ![th].held = SubSeq(@, 1, Len(@) - 1)]
    /\ UNCHANGED <<now, timerVars, rtimer, switchVars, menuVars, ifaceVars, cfgVars>>

\* A file operation is done, or run() enters the action of its timer.
PathStep(th) ==
    /\ lk[th].prog # <<>>
    /\ Head(lk[th].prog)[1] \in {"io", "call"}
    /\ lk' = [lk EXCEPT ![th].prog = Tail(@)]
    /\ UNCHANGED <<now, timerVars, rtimer, switchVars, menuVars, ifaceVars, cfgVars>>

\* ------------------------------------------- parts of the initial state
SwitchInit(level) ==
    /\ current_state = (level = 1)
    /\ rawLevel = level
    /\ edge_pc = "idle"
    /\ events = <<>>
    /\ sw = [burst |-> "none", lastEdge |-> NoTime, commits |-> 0, base |-> FALSE,
             len |-> 0, scenario |-> "none", pressAt |-> NoTime,
             releaseAt |-> NoTime, edges |-> 0, clean |-> "none", joinBy |-> NoTime]

SwitchIdle == SwitchInit(0)

\* A cleared terminal of R rows: every row blank, the cursor on row 0.
BlankScreen(R) ==
    [y |-> 0, rows |-> [i \in 1..R |-> [item |-> NoIndex, highlight |-> FALSE]]]

MenuIdle ==
    /\ menu = [n |-> 0, selected |-> 0, start_row |-> 0]
    /\ rows = 1
    /\ draws = <<>>
    /\ screen = BlankScreen(1)
    /\ downs = NoIndex

\* The menu tree handed to Interface (shaped like sensor_menu.get_menu and
\* test_menu.test1): MenuLists by name with their elements in order.  "freq" is
\* a FreqencyChoice, "toggle" an OnOffConfig, "leaf" a plain CallableMenuElement.
Tree == [root |-> <<"sub", "empty", "freq", "leaf">>,
         sub |-> <<"inner", "toggle", "leaf">>,
         inner |-> <<"leaf", "leaf">>,
         empty |-> <<>>]
Lists == DOMAIN Tree
Menus == Lists \cup {"freq"}
\* element.parent, set by MenuList.__init__
Parent == [root |-> "none", sub |-> "root", empty |-> "root", freq |-> "root",
           inner |-> "sub"]
\* The threads that call into Interface: "click" and "long" are waiter threads
\* of Switch timers (callback(key, False) and callback(key, True)), "view" is
\* the waiter thread of Interface.view_timer.
Threads == {"click", "long", "view"}
Keys == {"UP", "DOWN", "OK", "CANCEL"}

\* A thread that is not inside Interface
IdleThread ==
    [pc |-> "idle", key |-> "OK", long |-> FALSE, ret |-> "none", frames |-> 0,
     after |-> "exit", seen |-> <<>>, wrote |-> NoIndex]

\* Interface.__init__ (after show_data() returned), MenuList.__init__,
\* FreqencyChoice.__init__, OnOffConfig.__init__, Terminal.__init__
InterfaceInit(fq, oo) ==
    /\ nav = [current_menu |-> "none", display_off |-> FALSE, view |-> 0]
    /\ lists = [l \in Lists |-> [selected |-> 0, start_row |-> 0]]
    /\ freq = [current_frequency |-> fq, new_frequency |-> fq]
    /\ on_off = oo
    /\ thr = [th \in Threads |-> IdleThread]
    /\ ilock = [owner |-> "none", depth |-> 0]
    /\ disp = [context_manager_depth |-> 0, pending |-> 0, flushes |-> 0,
               backlight |-> TRUE]

IfaceIdle == InterfaceInit(0, TRUE)

\* The config file and ConfigManager.  A table maps every key to its value,
\* None for a key the file does not have (a file without the section has no
\* key at all).  Thread "p" updates key "a", thread "q" key "b"; key "c" is
\* only changed from outside.
MaxVal == 1             \* values are 1 .. MaxVal
MaxFaults == 1          \* I/O errors and external writes in one run
MaxStamp == 5           \* modification times are 1 .. MaxStamp
ConfigKeys == {"a", "b", "c"}
EmptyTable == [k \in ConfigKeys |-> None]
CThreads == {"p", "q"}
UpdateKey == [p |-> "a", q |-> "b"]

\* A thread that is not inside ConfigManager.  `wrote` is the value of the
\* update the thread made last, while nothing else has touched the store.
IdleCaller(wrote) ==
    [pc |-> "idle", op |-> "none", key |-> "a", val |-> None, local |-> EmptyTable,
     shared |-> FALSE, first |-> FALSE, parsed |-> FALSE, raised |-> FALSE,
     result |-> None, io |-> "ok",
     was |-> [cached |-> FALSE, same |-> FALSE, config |-> EmptyTable,
              st_mtime |-> NoTime],
     disturbed |-> FALSE, wrote |-> wrote]

\* RepeatTimer(start_conf.get(X, 10), ...): the interval of a sensor timer
\* whose key the file does not hold.
DefaultInterval == 10

\* Device.__init__ and Device._get_sensor_timers over a file with content
\* `table`: last_mtime is the file's modification time, each sensor timer has
\* the file's interval or the default, and the watcher waits for its tick.
\* The keys of ConfigKeys stand for SensorType.to_conf of the sensor types.
DeviceInit(table, st_mtime) ==
    [pc |-> "idle", read |-> "nothing", last_mtime |-> st_mtime,
     interval |-> [k \in ConfigKeys |->
                     IF table[k] # None THEN table[k] ELSE DefaultInterval]]

\* ConfigManager._config_cache / _display_cache as the class body leaves them,
\* over a file with content `table`.
ConfigInit(dc, table) ==
    /\ display_config = dc
    /\ file = [content |-> table, st_mtime |-> 1, torn |-> FALSE]
    /\ cache = [cached |-> FALSE, config |-> EmptyTable, st_mtime |-> NoTime,
                at |-> EmptyTable, depth |-> 0]
    /\ cfg_lock = [owner |-> "none", depth |-> 0]
    /\ cthr = [t \in CThreads |-> IdleCaller(None)]
    /\ observed = DeviceInit(table, 1)
    /\ want = table
    /\ faults = 0

CfgIdle == ConfigInit(FALSE, EmptyTable)

\* ----------------------------------------- the timers under a test caller
\* One timer is constructed and started: a ResettableTimer "T" or the
\* RepeatTimer; a caller then calls reset, stop and cancel at any moment.
InitTimer ==
    /\ now = 0
    /\ lk = LocksIdle
    /\ \E iv \in 1..MaxInterval, resettable \in BOOLEAN :
         /\ timer = [t \in RTimers |->
                        ResettableTimer_init(iv, resettable /\ t = "T")]
         /\ rtimer = RepeatTimer_init(iv, ~resettable)
    /\ hist = [t \in RTimers |-> HistInit]
    /\ SwitchIdle
    /\ MenuIdle
    /\ IfaceIdle
    /\ CfgIdle

TReset == \E iv \in {None} \cup (1..MaxInterval) : CallReset("T", iv)
TStop == CallStop("T")
TCancel == CallCancel("T")
TWake == Wake("T")
TArm == Arm("T")
TNotified == Notified("T")
TTimeout == Timeout("T")
TFire == Fire("T")
RepeatReset == \E iv \in {None} \cup (1..MaxInterval) : RepeatCallReset(iv)

NextTimer ==
    \/ TReset \/ TStop \/ TCancel
    \/ TWake \/ TArm \/ TNotified \/ TTimeout \/ TFire
    \/ RepeatReset \/ RepeatCancelStop \/ RepeatCancelSet
    \/ RepeatCheck \/ RepeatWake \/ RepeatTimeout \/ RepeatFire \/ RepeatClear
    \/ Tick

SpecTimer == InitTimer /\ [][NextTimer]_vars

\* The waiter thread of the RepeatTimer keeps running (its action returns),
\* and a thread that has begun cancel() finishes it.
RepeatFairness ==
    /\ WF_vars(RepeatCheck)
    /\ WF_vars(RepeatWake)
    /\ WF_vars(RepeatTimeout)
    /\ WF_vars(RepeatFire)
    /\ WF_vars(RepeatClear)
    /\ WF_vars(RepeatCancelSet)

SpecTimerFair == InitTimer /\ [][NextTimer]_vars /\ RepeatFairness

\* ----------------------------------------------------------------- Switch
\* Switch.edge_change runs on the pigpio callback thread, one call at a time,
\* under Switch._lock; Switch.change_state runs on the waiter thread of the
\* debounce timer and does not take that lock.  edge_pc is the timer call
\* edge_change has decided on and not yet made.

\* The decision of edge_change(level): level 2 is pigpio's "no level change".
\* Faulty variant: the `else: self._debounce_timer.stop()` branch is missing.
EdgeDropsSameLevel(level, committed) ==
    IF level = 2 THEN "idle"
    ELSE IF (level = 1) # committed THEN "reset" ELSE "idle"
Switch_edge_change(level, committed) ==
    IF level = 2 THEN "idle"
    ELSE IF (level = 1) # committed THEN "reset" ELSE "stop"

\* The debounce timer is at rest and the committed state is the pin's level.
DebounceQuiet ==
    /\ edge_pc = "idle"
    /\ Quiescent(timer["deb"])
    /\ current_state = (rawLevel = 1)

\* History of the raw edges.
\*   burst: "tight" while every edge since the debounce path was last at rest
\*          came less than the debounce interval after the one before it;
\*          base: the committed state when the burst began; len: its edges;
\*          commits: change_state calls since it began.
\*   scenario: "pressed" after one press edge on a switch at rest, "released"
\*          after the release edge of that press, later than debounce +
\*          long-press time after the press edge; any other edge voids it.
EdgeHistory(level) ==
    LET rest == DebounceQuiet /\ sw.clean = "none"
        press == rest /\ Quiescent(timer["long"]) /\ level = 1
        release == /\ ~press
                   /\ sw.scenario = "pressed"
                   /\ level = 0
                   /\ now > sw.pressAt + DebounceTicks + LongPushTicks
    IN [burst |-> IF rest THEN "tight"
                  ELSE IF sw.burst = "tight" /\ now - sw.lastEdge < DebounceTicks
                       THEN "tight" ELSE "void",
        lastEdge |-> now,
        commits |-> IF rest THEN 0 ELSE sw.commits,
        base |-> IF rest THEN current_state ELSE sw.base,
        len |-> IF rest THEN 1 ELSE sw.len + 1,
        scenario |-> IF press THEN "pressed" ELSE IF release THEN "released" ELSE "void",
        pressAt |-> IF press THEN now ELSE IF release THEN sw.pressAt ELSE NoTime,
        releaseAt |-> IF release THEN now ELSE NoTime,
        edges |-> sw.edges + 1,
        clean |-> sw.clean,
        joinBy |-> sw.joinBy]

\* pigpio reports an edge: the pin's level flips and edge_change(level) compares
\* it with the committed state.  Once clean() has cancelled _edge_callback the
\* pin still moves, and edge_change is no longer called.
Edge ==
    /\ edge_pc = "idle"
    /\ sw.edges < MaxEdges
    /\ LET level == 1 - rawLevel IN
         /\ rawLevel' = level
         /\ edge_pc' = IF sw.clean = "none"
                         THEN Switch_edge_change(level, current_state)
                         ELSE "idle"
         /\ sw' = EdgeHistory(level)
         /\ events' = IF sw'.scenario = "pressed" THEN <<>> ELSE events
    /\ UNCHANGED <<now, lk, timerVars, rtimer, current_state, menuVars, ifaceVars, cfgVars>>

\* edge_change(level = 2): nothing is done.
EdgeNoChange ==
    /\ edge_pc = "idle"
    /\ sw.clean = "none"
    /\ edge_pc' = Switch_edge_change(2, current_state)
    /\ UNCHANGED <<now, lk, timerVars, rtimer, current_state, rawLevel, events, sw, menuVars, ifaceVars, cfgVars>>

\* edge_change makes the call it decided on: _debounce_timer.reset() or .stop().
EdgeCall ==
    /\ edge_pc \in {"reset", "stop"}
    /\ timer' = [timer EXCEPT !["deb"] = IF edge_pc = "reset"
                                         THEN ResettableTimer_reset(@, None)
                                         ELSE ResettableTimer_stop(@)]
    /\ hist' = [hist EXCEPT !["deb"] = IF edge_pc = "reset"
                                       THEN HistReset(@, timer["deb"], None)
                                       ELSE HistStop(@)]
    /\ edge_pc' = "idle"
    /\ UNCHANGED <<now, lk, rtimer, current_state, rawLevel, events, sw, menuVars, ifaceVars, cfgVars>>

\* Faulty variant of change_state: the long-press timer is never reset.
ChangeStateNoLongReset ==
    /\ timer["deb"].pc = "call"
    /\ current_state' = ~current_state
    /\ events' = Append(events, <<IF current_state' THEN "click" ELSE "released", now>>)
    /\ timer' = [timer EXCEPT !["deb"].pc = "finished_wait",
                              !["long"] = ResettableTimer_stop(@)]
    /\ hist' = [hist EXCEPT !["deb"] = HistFire(@), !["long"] = HistStop(@)]
    /\ sw' = [sw EXCEPT !.commits = @ + 1]
    /\ UNCHANGED <<now, lk, rtimer, rawLevel, edge_pc, menuVars, ifaceVars, cfgVars>>

\* The debounce timer calls Switch.change_state: the committed state is
\* toggled; on a commit to pressed callback(key, False) is called (the click,
\* logged as "click") and the long-press timer is reset; on a commit to
\* released (logged as "released") the long-press timer is stopped.
ChangeState ==
    /\ timer["deb"].pc = "call"
    /\ current_state' = ~current_state
    /\ events' = Append(events, <<IF current_state' THEN "click" ELSE "released", now>>)
    /\ timer' = [timer EXCEPT !["deb"].pc = "finished_wait",
                              !["long"] = IF current_state'
                                          THEN ResettableTimer_reset(@, None)
                                          ELSE ResettableTimer_stop(@)]
    /\ hist' = [hist EXCEPT !["deb"] = HistFire(@),
                            !["long"] = IF current_state'
                                        THEN HistReset(@, timer["long"], None)
                                        ELSE HistStop(@)]
    /\ sw' = [sw EXCEPT !.commits = @ + 1]
    /\ UNCHANGED <<now, lk, rtimer, rawLevel, edge_pc, menuVars, ifaceVars, cfgVars>>

\* The long-press timer calls callback(key, True).
LongPress ==
    /\ timer["long"].pc = "call"
    /\ events' = Append(events, <<"long", now>>)
    /\ timer' = [timer EXCEPT !["long"].pc = "finished_wait"]
    /\ hist' = [hist EXCEPT !["long"] = HistFire(@)]
    /\ UNCHANGED <<now, lk, rtimer, current_state, rawLevel, edge_pc, sw, menuVars, ifaceVars, cfgVars>>

\* Switch.clean on the thread that tears the device down, one statement per
\* step: `_edge_callback.cancel()`, `_debounce_timer.cancel()`,
\* `_long_timer.cancel()`, `_debounce_timer.join(1)`, `_long_timer.join(1)`.
\* A join returns when the waiter has left run() or when its second is over:
\* a second is twice the long-press time of 0.5 s.  An edge_change that was
\* under way when the callback was cancelled still makes its call.
SwitchClean ==
    /\ sw.clean # "done"
    /\ \/ /\ sw.clean = "none"
          /\ sw' = [sw EXCEPT !.clean = "cancel_deb", !.burst = "void",
                               !.scenario = "void"]
          /\ UNCHANGED <<timer, hist>>
       \/ /\ sw.clean = "cancel_deb"
          /\ timer' = [timer EXCEPT !["deb"] = ResettableTimer_cancel(@)]
          /\ hist' = [hist EXCEPT !["deb"] = HistCancel(@)]
          /\ sw' = [sw EXCEPT !.clean = "cancel_long"]
       \/ /\ sw.clean = "cancel_long"
          /\ timer' = [timer EXCEPT !["long"] = ResettableTimer_cancel(@)]
          /\ hist' = [hist EXCEPT !["long"] = HistCancel(@)]
          /\ sw' = [sw EXCEPT !.clean = "join_deb",
                               !.joinBy = now + 2 * LongPushTicks]
       \/ /\ sw.clean = "join_deb"
          /\ timer["deb"].pc = "exited" \/ now >= sw.joinBy
          /\ sw' = [sw EXCEPT !.clean = "join_long",
                               !.joinBy = now + 2 * LongPushTicks]
          /\ UNCHANGED <<timer, hist>>
       \/ /\ sw.clean = "join_long"
          /\ timer["long"].pc = "exited" \/ now >= sw.joinBy
          /\ sw' = [sw EXCEPT !.clean = "done", !.joinBy = NoTime]
          /\ UNCHANGED <<timer, hist>>
    /\ UNCHANGED <<now, lk, rtimer, current_state, rawLevel, edge_pc, events,
                   menuVars, ifaceVars, cfgVars>>

\* A Switch is constructed on a pin at either level; both timers are started.
InitSwitch ==
    /\ now = 0
    /\ lk = LocksIdle
    /\ timer = [t \in RTimers |->
                   IF t = "deb" THEN ResettableTimer_init(DebounceTicks, TRUE)
                   ELSE IF t = "long" THEN ResettableTimer_init(LongPushTicks, TRUE)
                   ELSE ResettableTimer_init(1, FALSE)]
    /\ hist = [t \in RTimers |-> HistInit]
    /\ rtimer = RepeatTimer_init(1, FALSE)
    /\ \E level \in {0, 1} : SwitchInit(level)
    /\ MenuIdle
    /\ IfaceIdle
    /\ CfgIdle

DebWake == Wake("deb")
DebArm == Arm("deb")
DebNotified == Notified("deb")
DebTimeout == Timeout("deb")
LongWake == Wake("long")
LongArm == Arm("long")
LongNotified == Notified("long")
LongTimeout == Timeout("long")

NextSwitch ==
    \/ Edge \/ EdgeNoChange \/ EdgeCall
    \/ DebWake \/ DebArm \/ DebNotified \/ DebTimeout \/ ChangeState
    \/ LongWake \/ LongArm \/ LongNotified \/ LongTimeout \/ LongPress
    \/ SwitchClean
    \/ Tick

SpecSwitch == InitSwitch /\ [][NextSwitch]_vars

\* --------------------------------------------------------------- MenuList
\* A MenuList of n elements on a display of R rows.  Elements are named by
\* their index 0 .. n-1.  The display calls of a key press are recorded as
\*   [op |-> "update_row", row, item, highlight]
\*   [op |-> "push_back", item, highlight]
\*   [op |-> "print_lines", first, count, highlight]   (redraw)
Min(a, b) == IF a < b THEN a ELSE b
Max(a, b) == IF a > b THEN a ELSE b

\* MenuList._display_row
DisplayRow(m, index) == index - m.start_row

\* Faulty variant: the row is never highlighted.
UpdateRowPlain(row, item, hl) ==
    [op |-> "update_row", row |-> row, item |-> item, highlight |-> FALSE]
\* ScreenDisplay.update_row(row, text, highlight=hl)
UpdateRow(row, item, hl) ==
    [op |-> "update_row", row |-> row, item |-> item, highlight |-> hl]

\* Faulty variant: the old row keeps its highlight.
ChangeHighlightNewOnly(m, new, old) == <<UpdateRow(DisplayRow(m, new), new, TRUE)>>
\* MenuList.change_highlight
ChangeHighlight(m, new, old) ==
    <<UpdateRow(DisplayRow(m, old), old, FALSE), UpdateRow(DisplayRow(m, new), new, TRUE)>>

\* MenuList.redraw: print_lines(menu_elements[start_row : start_row + rows],
\* highlight = _display_row(selected))
Redraw(m, R) ==
    <<[op |-> "print_lines", first |-> m.start_row,
       count |-> Max(0, Min(R, m.n - m.start_row)),
       highlight |-> DisplayRow(m, m.selected)]>>

\* ------------------------------------------------ what the terminal shows
\* The terminal as rows of text: screen.rows[y + 1] is what row y shows (the
\* element printed there and whether it is highlighted), screen.y is the
\* cursor row.  Every text fits on its row.  luma's terminal.newline, which
\* Terminal.newline falls back on, scrolls the image up by one row when the
\* cursor is on the last row and moves the cursor down otherwise.

\* Terminal.newline: `if self.scroll or self.y + 1 < self.height:
\* super().newline() else: self.flush(); self._cy += self._ch`
Terminal_newline(sc, scroll, R) ==
    IF scroll \/ sc.y + 1 < R
    THEN IF sc.y + 1 >= R
         THEN [sc EXCEPT !.rows = [i \in 1..R |->
                                     IF i < R THEN sc.rows[i + 1]
                                     ELSE [item |-> NoIndex, highlight |-> FALSE]]]
         ELSE [sc EXCEPT !.y = @ + 1]
    ELSE [sc EXCEPT !.y = @ + 1]

\* Terminal.goto(0, y) followed by Terminal.println(text, highlight=hl,
\* scroll_first=scroll_first); goto ignores a row outside the terminal.
Terminal_println(sc, y, item, hl, scroll_first, R) ==
    LET s0 == IF 0 <= y /\ y < R THEN [sc EXCEPT !.y = y] ELSE sc
        s1 == IF scroll_first THEN Terminal_newline(s0, TRUE, R) ELSE s0
        s2 == IF s1.y < R
              THEN [s1 EXCEPT !.rows[s1.y + 1] = [item |-> item, highlight |-> hl]]
              ELSE s1
    IN  Terminal_newline(s2, FALSE, R)

\* ScreenDisplay.print_lines from its i-th println on: `count` lines starting
\* with element `first`, then blank lines up to R; every println goes to the
\* row the cursor is on.
RECURSIVE PrintLines(_, _, _, _, _, _)
PrintLines(sc, i, first, count, hl, R) ==
    IF i >= Max(count, R) THEN sc
    ELSE PrintLines(Terminal_println(sc, IF i = 0 THEN 0 ELSE NoIndex,
                                     IF i < count THEN first + i ELSE NoIndex,
                                     i < count /\ i = hl, FALSE, R),
                    i + 1, first, count, hl, R)

\* One display call applied to the terminal: ScreenDisplay.update_row,
\* ScreenDisplay.push_back, ScreenDisplay.print_lines
ShowCall(sc, c, R) ==
    CASE c.op = "update_row" -> Terminal_println(sc, c.row, c.item, c.highlight, FALSE, R)
      [] c.op = "push_back" -> Terminal_println(sc, R - 1, c.item, c.highlight, TRUE, R)
      [] c.op = "print_lines" -> PrintLines(sc, 0, c.first, c.count, c.highlight, R)

\* The display calls of one key press applied in order
RECURSIVE ShowCalls(_, _, _)
ShowCalls(sc, calls, R) ==
    IF calls = <<>> THEN sc ELSE ShowCalls(ShowCall(sc, Head(calls), R), Tail(calls), R)

\* Faulty variant of the scroll test of Key.UP: `>=` for `>`.
ScrollsUpOffByOne(m, sel) == m.start_row >= sel
\* MenuList.key_press, Key.UP: `if self.start_row > self.selected`
ScrollsUp(m, sel) == m.start_row > sel

\* Faulty variant of the scroll test: `>` for `>=`.
ScrollsDownOffByOne(m, sel, R) == DisplayRow(m, sel) > R
\* MenuList.key_press, Key.DOWN: `if self._display_row(self.selected) >= self.display.rows`
ScrollsDown(m, sel, R) == DisplayRow(m, sel) >= R

\* Faulty variant of the test of Key.DOWN: `<=` for `<`.
CanMoveDownOffByOne(m) == m.selected + 1 <= m.n
\* MenuList.key_press, Key.DOWN: `if self.selected + 1 < len(self.menu_elements)`
CanMoveDown(m) == m.selected + 1 < m.n

\* MenuList.key_press(key) of a list without parent whose elements are plain
\* (the definition KeyPressAlwaysRedraws is a faulty variant: every key redraws)
\* CallableMenuElements (call() does nothing): the list afterwards, the display
\* calls made, and the menu returned ("self", or "parent", which is None here).
KeyPressAlwaysRedraws(m, key, R) == [menu |-> m, draws |-> Redraw(m, R), ret |-> "self"]
MenuList_key_press(m, key, R) ==
    CASE key = "UP" ->
            IF m.selected > 0
            THEN LET sel == m.selected - 1 IN
                 IF ScrollsUp(m, sel)
                 THEN LET m2 == [m EXCEPT !.selected = sel, !.start_row = sel] IN
                      [menu |-> m2, draws |-> Redraw(m2, R), ret |-> "self"]
                 ELSE LET m2 == [m EXCEPT !.selected = sel] IN
                      [menu |-> m2, draws |-> ChangeHighlight(m2, sel, sel + 1),
                       ret |-> "self"]
            ELSE [menu |-> m, draws |-> <<>>, ret |-> "self"]
      [] key = "DOWN" ->
            IF CanMoveDown(m)
            THEN LET sel == m.selected + 1
                     m2 == [m EXCEPT !.selected = sel] IN
                 IF ScrollsDown(m2, sel, R)
                 THEN [menu |-> [m2 EXCEPT !.start_row = @ + 1],
                       draws |-> <<UpdateRow(DisplayRow(m2, sel) - 1, sel - 1, FALSE),
                                   [op |-> "push_back", item |-> sel, highlight |-> TRUE]>>,
                       ret |-> "self"]
                 ELSE [menu |-> m2, draws |-> ChangeHighlight(m2, sel, sel - 1),
                       ret |-> "self"]
            ELSE [menu |-> m, draws |-> <<>>, ret |-> "self"]
      [] key = "CANCEL" ->
            [menu |-> [m EXCEPT !.selected = 0, !.start_row = 0],
             draws |-> <<>>, ret |-> "parent"]
      [] key = "OK" ->
            [menu |-> m, draws |-> <<>>, ret |-> "self"]

Up ==
    /\ menu' = MenuList_key_press(menu, "UP", rows).menu
    /\ draws' = MenuList_key_press(menu, "UP", rows).draws
    /\ screen' = ShowCalls(screen, draws', rows)
    /\ downs' = NoIndex
    /\ UNCHANGED <<now, lk, timerVars, rtimer, switchVars, rows, ifaceVars, cfgVars>>

Down ==
    /\ menu' = MenuList_key_press(menu, "DOWN", rows).menu
    /\ draws' = MenuList_key_press(menu, "DOWN", rows).draws
    /\ screen' = ShowCalls(screen, draws', rows)
    /\ downs' = IF downs \in 0..MaxN THEN downs + 1 ELSE NoIndex
    /\ UNCHANGED <<now, lk, timerVars, rtimer, switchVars, rows, ifaceVars, cfgVars>>

Cancel ==
    /\ menu' = MenuList_key_press(menu, "CANCEL", rows).menu
    /\ draws' = MenuList_key_press(menu, "CANCEL", rows).draws
    /\ screen' = ShowCalls(screen, draws', rows)
    /\ downs' = 0
    /\ UNCHANGED <<now, lk, timerVars, rtimer, switchVars, rows, ifaceVars, cfgVars>>

Confirm ==
    /\ menu' = MenuList_key_press(menu, "OK", rows).menu
    /\ draws' = MenuList_key_press(menu, "OK", rows).draws
    /\ screen' = ShowCalls(screen, draws', rows)
    /\ downs' = NoIndex
    /\ UNCHANGED <<now, lk, timerVars, rtimer, switchVars, rows, ifaceVars, cfgVars>>

\* MenuList.redraw(), called when the list becomes the active menu
RedrawList ==
    /\ draws' = Redraw(menu, rows)
    /\ screen' = ShowCalls(screen, draws', rows)
    /\ UNCHANGED <<menu, downs>>
    /\ UNCHANGED <<now, lk, timerVars, rtimer, switchVars, rows, ifaceVars, cfgVars>>

\* A MenuList of any length up to MaxN on a display of any height up to MaxR,
\* with selected = 0 and start_row = 0, drawn on the cleared terminal.
InitMenuList ==
    /\ now = 0
    /\ lk = LocksIdle
    /\ timer = [t \in RTimers |-> ResettableTimer_init(1, FALSE)]
    /\ hist = [t \in RTimers |-> HistInit]
    /\ rtimer = RepeatTimer_init(1, FALSE)
    /\ SwitchIdle
    /\ \E n \in 0..MaxN : menu = [n |-> n, selected |-> 0, start_row |-> 0]
    /\ rows \in 1..MaxR
    /\ draws = <<>>
    /\ screen = ShowCalls(BlankScreen(rows), Redraw(menu, rows), rows)
    /\ downs = 0
    /\ IfaceIdle
    /\ CfgIdle

NextMenuList == Up \/ Down \/ Cancel \/ Confirm \/ RedrawList

SpecMenuList == InitMenuList /\ [][NextMenuList]_vars

\* -------------------------------------------------------------- menu tree
\* The nodes of Tree under MenuList.key_press and FreqencyChoice.key_press.
\* Elements of a list are named by their index, as above.
FrequencyCount == 3     \* len(frequency_list) of the FreqencyChoice node

\* The MenuList `node` as a record [n, selected, start_row]
ListOf(ls, node) ==
    [n |-> Len(Tree[node]), selected |-> ls[node].selected,
     start_row |-> ls[node].start_row]

\* FreqencyChoice.redraw: clear() and four update_row calls showing
\* frequency_list[new_frequency]
FreqencyChoice_redraw(fq) ==
    <<[op |-> "clear"], [op |-> "frequency", item |-> fq.new_frequency]>>

\* Faulty variant: the node is not drawn.
NodeRedrawSkipped(node, ls, fq, R) == <<>>
\* node.redraw() for either kind of Menu
NodeRedraw(node, ls, fq, R) ==
    IF node = "freq" THEN FreqencyChoice_redraw(fq) ELSE Redraw(ListOf(ls, node), R)

\* parent.redraw() when there is a parent
ParentRedraw(node, ls, fq, R) ==
    IF Parent[node] = "none" THEN <<>> ELSE NodeRedraw(Parent[node], ls, fq, R)

\* Faulty variant of the operator below: Up does not wrap, and Cancel writes
\* the current choice again.
FreqencyChoiceNoWrap(key, ls, fq, oo, R) ==
    CASE key = "CANCEL" ->
            LET fq2 == [fq EXCEPT !.new_frequency = fq.current_frequency] IN
            [lists |-> ls, freq |-> fq2, on_off |-> oo, wrote |-> fq2.current_frequency,
             draws |-> ParentRedraw("freq", ls, fq2, R), ret |-> Parent["freq"]]
      [] key = "UP" ->
            LET fq2 == [fq EXCEPT !.new_frequency = IF @ > 0 THEN @ - 1 ELSE 0] IN
            [lists |-> ls, freq |-> fq2, on_off |-> oo, wrote |-> NoIndex,
             draws |-> FreqencyChoice_redraw(fq2), ret |-> "freq"]
      [] key = "DOWN" ->
            LET fq2 == [fq EXCEPT !.new_frequency =
                            IF @ < FrequencyCount - 1 THEN @ + 1 ELSE 0] IN
            [lists |-> ls, freq |-> fq2, on_off |-> oo, wrote |-> NoIndex,
             draws |-> FreqencyChoice_redraw(fq2), ret |-> "freq"]
      [] key = "OK" ->
            LET fq2 == [fq EXCEPT !.current_frequency = fq.new_frequency] IN
            [lists |-> ls, freq |-> fq2, on_off |-> oo,
             wrote |-> fq2.current_frequency,
             draws |-> ParentRedraw("freq", ls, fq2, R), ret |-> Parent["freq"]]

\* FreqencyChoice.key_press(key).  `wrote` is the index handed to
\* ConfigManager.update_config_values, or -1 when nothing is written.
FreqencyChoice_key_press(key, ls, fq, oo, R) ==
    CASE key = "CANCEL" ->
            LET fq2 == [fq EXCEPT !.new_frequency = fq.current_frequency] IN
            [lists |-> ls, freq |-> fq2, on_off |-> oo, wrote |-> NoIndex,
             draws |-> ParentRedraw("freq", ls, fq2, R), ret |-> Parent["freq"]]
      [] key = "UP" ->
            LET fq2 == [fq EXCEPT !.new_frequency =
                            IF @ > 0 THEN @ - 1
                            ELSE IF FrequencyCount > 0 THEN FrequencyCount - 1 ELSE 0] IN
            [lists |-> ls, freq |-> fq2, on_off |-> oo, wrote |-> NoIndex,
             draws |-> FreqencyChoice_redraw(fq2), ret |-> "freq"]
      [] key = "DOWN" ->
            LET fq2 == [fq EXCEPT !.new_frequency =
                            IF @ < FrequencyCount - 1 THEN @ + 1 ELSE 0] IN
            [lists |-> ls, freq |-> fq2, on_off |-> oo, wrote |-> NoIndex,
             draws |-> FreqencyChoice_redraw(fq2), ret |-> "freq"]
      [] key = "OK" ->
            LET fq2 == [fq EXCEPT !.current_frequency = fq.new_frequency] IN
            [lists |-> ls, freq |-> fq2, on_off |-> oo,
             wrote |-> fq2.current_frequency,
             draws |-> ParentRedraw("freq", ls, fq2, R), ret |-> Parent["freq"]]

\* Faulty variants of Key.CANCEL: the list keeps its selection when it is
\* left; only the viewport is reset.
CancelKeepsSelection(node, ls) == ls
CancelResetsViewportOnly(node, ls) == [ls EXCEPT ![node].start_row = 0]
\* MenuList.key_press, Key.CANCEL: `self.selected = 0; self.start_row = 0`
CancelResets(node, ls) == [ls EXCEPT ![node] = [selected |-> 0, start_row |-> 0]]

\* MenuList.key_press(key) of the list `node` of the tree.
TreeList_key_press(node, key, ls, fq, oo, R) ==
    LET m == ListOf(ls, node) IN
    CASE key \in {"UP", "DOWN"} ->
            LET r == MenuList_key_press(m, key, R) IN
            [lists |-> [ls EXCEPT ![node] = [selected |-> r.menu.selected,
                                             start_row |-> r.menu.start_row]],
             freq |-> fq, on_off |-> oo, wrote |-> NoIndex,
             draws |-> r.draws, ret |-> node]
      [] key = "CANCEL" ->
            LET ls2 == CancelResets(node, ls) IN
            [lists |-> ls2, freq |-> fq, on_off |-> oo, wrote |-> NoIndex,
             draws |-> ParentRedraw(node, ls2, fq, R), ret |-> Parent[node]]
      [] key = "OK" ->
            IF m.selected < m.n
            THEN LET child == Tree[node][m.selected + 1] IN
                 IF child \in Menus
                 THEN [lists |-> ls, freq |-> fq, on_off |-> oo, wrote |-> NoIndex,
                       draws |-> NodeRedraw(child, ls, fq, R), ret |-> child]
                 ELSE IF child = "toggle"
                 THEN \* OnOffConfig.call() changes display_str
                      [lists |-> ls, freq |-> fq, on_off |-> ~oo, wrote |-> NoIndex,
                       draws |-> <<UpdateRow(DisplayRow(m, m.selected), m.selected, TRUE)>>,
                       ret |-> node]
                 ELSE [lists |-> ls, freq |-> fq, on_off |-> oo, wrote |-> NoIndex,
                       draws |-> <<>>, ret |-> node]
            ELSE [lists |-> ls, freq |-> fq, on_off |-> oo, wrote |-> NoIndex,
                  draws |-> <<>>, ret |-> node]

\* Menu.key_press, dispatched on the class of the node
Menu_key_press(node, key, ls, fq, oo, R) ==
    IF node = "freq" THEN FreqencyChoice_key_press(key, ls, fq, oo, R)
    ELSE TreeList_key_press(node, key, ls, fq, oo, R)

\* ------------------------------------------------- Terminal, ScreenDisplay
\* disp.pending counts the display calls drawn on the backing image and not
\* yet shown by the device; disp.flushes counts the device updates
\* (luma terminal.flush) since the running handler was entered.

\* Faulty variant: flush() without the depth test.
FlushIgnoringDepth(d) == [d EXCEPT !.flushes = @ + 1, !.pending = 0]
\* Terminal.flush: `if self.context_manager_depth == 0: super().flush()`
Terminal_flush(d) ==
    IF d.context_manager_depth = 0
    THEN [d EXCEPT !.flushes = @ + 1, !.pending = 0]
    ELSE d

\* k display calls (update_row, push_back, print_lines, clear) in a row: each
\* draws on the backing image and ends in newline() or clear(), which call
\* self.flush().
RECURSIVE Println(_, _)
Println(d, k) ==
    IF k = 0 THEN d
    ELSE Println(Terminal_flush([d EXCEPT !.pending = @ + 1]), k - 1)

\* ScreenDisplay.__enter__
ScreenDisplay_enter(d) == [d EXCEPT !.context_manager_depth = @ + 1]
\* ScreenDisplay.__exit__
ScreenDisplay_exit(d) == Terminal_flush([d EXCEPT !.context_manager_depth = @ - 1])

\* -------------------------------------------------------------- Interface
\* Interface._lock is an RLock: acquire blocks unless the lock is free or
\* owned by the caller.
\* Faulty variant: a lock that never blocks.
RLockNeverBlocks(l, th) == TRUE
RLock_free(l, th) == l.owner \in {"none", th}
RLock_acquire(l, th) == [owner |-> th, depth |-> l.depth + 1]
RLock_release(l) ==
    [owner |-> IF l.depth = 1 THEN "none" ELSE l.owner, depth |-> l.depth - 1]

\* View.next, View.prev
View_next(v) == IF v < 2 THEN v + 1 ELSE 0
View_prev(v) == IF v > 0 THEN v - 1 ELSE 2

\* What a handler works on: the navigation state.
NavState == <<nav, lists, freq, on_off>>

\* thr[th].pc is the position of thread th inside Interface:
\*   "idle"        not inside Interface
\*   "branch"      key_press: inside `with self._lock, self._display`, before the if
\*   "close_loop"  key_press: at `while self._current_menu is not None`
\*   "assign"      key_press: _current_menu.key_press(key) returned thr[th].ret,
\*                 `self._current_menu = ...` not yet stored
\*   "show_data"   entering show_data()
\*   "view_enter"  entering display_view()
\*   "view_draw"   display_view: inside `with self._lock, self._display`
\*   "view_exit"   display_view: leaving its with block
\*   "turn_on"     key_press: at `self._display.turn_on()`
\*   "exit"        key_press: leaving its with block
\*   "nv_branch"   next_view: inside `with self._lock`, before the if
\*   "release"     next_view: leaving its with block
\* thr[th].wrote is the index the FreqencyChoice node handed to
\* ConfigManager.update_config_values during the call, if it did;
\* thr[th].frames is the number of display_view activations of the thread,
\* thr[th].after the position display_view returns to, thr[th].seen the
\* navigation state the thread left at its last step.  The nested
\* `with self._lock` of show_data and of a nested next_view never block and
\* are released before the handler's own exit; they are not counted in
\* ilock.depth.
Goto(th, pc) == [thr EXCEPT ![th].pc = pc, ![th].seen = NavState']

\* Interface.key_press(key, long_press): `with self._lock, self._display`
KeyPressEnter(th) ==
    /\ th \in {"click", "long"}
    /\ thr[th].pc = "idle"
    /\ RLock_free(ilock, th)
    /\ ilock' = RLock_acquire(ilock, th)
    /\ disp' = ScreenDisplay_enter([disp EXCEPT !.flushes = 0])
    /\ draws' = <<>>
    /\ UNCHANGED <<nav, lists, freq, on_off>>
    /\ \E key \in Keys :
         thr' = [thr EXCEPT ![th].pc = "branch", ![th].key = key,
                            ![th].long = (th = "long"), ![th].seen = NavState']
    /\ UNCHANGED <<now, lk, timerVars, rtimer, switchVars, menu, rows, screen, downs, cfgVars>>

\* key_press: `if long_press:`
LongPressKey(th) ==
    /\ thr[th].pc = "branch"
    /\ thr[th].long
    /\ UNCHANGED <<lists, freq, on_off, ilock>>
    /\ IF thr[th].key = "CANCEL"
       THEN /\ nav' = [nav EXCEPT !.display_off = TRUE]
            /\ disp' = [disp EXCEPT !.backlight = FALSE]
            /\ thr' = Goto(th, "close_loop")
       ELSE /\ UNCHANGED <<nav, disp>>
            /\ thr' = Goto(th, "exit")
    /\ draws' = <<>>
    /\ UNCHANGED <<now, lk, timerVars, rtimer, switchVars, menu, rows, screen, downs, cfgVars>>

\* Faulty variant of the step below: an `if` in place of the `while`.
CloseLoopOnce(th) ==
    /\ thr[th].pc = "close_loop"
    /\ IF nav.current_menu # "none"
       THEN LET r == Menu_key_press(nav.current_menu, "CANCEL", lists, freq, on_off, rows) IN
            /\ lists' = r.lists
            /\ freq' = r.freq
            /\ on_off' = r.on_off
            /\ draws' = r.draws
            /\ disp' = Println(disp, Len(r.draws))
            /\ nav' = [nav EXCEPT !.current_menu = r.ret]
            /\ thr' = Goto(th, "exit")
       ELSE /\ UNCHANGED <<nav, lists, freq, on_off, disp>>
            /\ draws' = <<>>
            /\ thr' = Goto(th, "exit")
    /\ UNCHANGED ilock
    /\ UNCHANGED <<now, lk, timerVars, rtimer, switchVars, menu, rows, screen, downs, cfgVars>>

\* key_press: one turn of `while self._current_menu is not None:
\* self._current_menu = self._current_menu.key_press(Key.CANCEL)`
CloseLoop(th) ==
    /\ thr[th].pc = "close_loop"
    /\ IF nav.current_menu # "none"
       THEN LET r == Menu_key_press(nav.current_menu, "CANCEL", lists, freq, on_off, rows) IN
            /\ lists' = r.lists
            /\ freq' = r.freq
            /\ on_off' = r.on_off
            /\ draws' = r.draws
            /\ disp' = Println(disp, Len(r.draws))
            /\ nav' = [nav EXCEPT !.current_menu = r.ret]
            /\ thr' = [Goto(th, "close_loop") EXCEPT ![th].wrote = r.wrote]
       ELSE /\ UNCHANGED <<nav, lists, freq, on_off, disp>>
            /\ draws' = <<>>
            /\ thr' = Goto(th, "exit")
    /\ UNCHANGED ilock
    /\ UNCHANGED <<now, lk, timerVars, rtimer, switchVars, menu, rows, screen, downs, cfgVars>>

\* Faulty variant of the step below: show_data() is not called.
WakeWithoutShowData(th) ==
    /\ thr[th].pc = "branch"
    /\ ~thr[th].long
    /\ nav.display_off
    /\ nav' = [nav EXCEPT !.display_off = FALSE]
    /\ draws' = <<>>
    /\ UNCHANGED <<lists, freq, on_off, ilock, disp>>
    /\ thr' = [Goto(th, "turn_on") EXCEPT ![th].after = "turn_on"]
    /\ UNCHANGED <<now, lk, timerVars, rtimer, switchVars, menu, rows, screen, downs, cfgVars>>

\* key_press: `elif self.display_off:` up to the call of show_data()
WakeDisplay(th) ==
    /\ thr[th].pc = "branch"
    /\ ~thr[th].long
    /\ nav.display_off
    /\ nav' = [nav EXCEPT !.display_off = FALSE]
    /\ draws' = <<>>
    /\ UNCHANGED <<lists, freq, on_off, ilock, disp>>
    /\ thr' = [Goto(th, "show_data") EXCEPT ![th].after = "turn_on"]
    /\ UNCHANGED <<now, lk, timerVars, rtimer, switchVars, menu, rows, screen, downs, cfgVars>>

\* key_press: `elif self._current_menu is None:` with Key.OK
OpenMenu(th) ==
    /\ thr[th].pc = "branch"
    /\ ~thr[th].long
    /\ ~nav.display_off
    /\ nav.current_menu = "none"
    /\ thr[th].key = "OK"
    /\ nav' = [nav EXCEPT !.current_menu = "root"]
    /\ draws' = NodeRedraw("root", lists, freq, rows)
    /\ disp' = Println(disp, Len(draws'))
    /\ UNCHANGED <<lists, freq, on_off, ilock>>
    /\ thr' = Goto(th, "exit")
    /\ UNCHANGED <<now, lk, timerVars, rtimer, switchVars, menu, rows, screen, downs, cfgVars>>

\* key_press: `elif self._current_menu is None:` with Key.UP or Key.DOWN, up to
\* the call of display_view(); Key.CANCEL matches no branch.
IdleKey(th) ==
    /\ thr[th].pc = "branch"
    /\ ~thr[th].long
    /\ ~nav.display_off
    /\ nav.current_menu = "none"
    /\ thr[th].key # "OK"
    /\ UNCHANGED <<lists, freq, on_off, ilock, disp>>
    /\ IF thr[th].key = "CANCEL"
       THEN /\ UNCHANGED <<nav, rtimer>>
            /\ thr' = Goto(th, "exit")
       ELSE /\ nav' = [nav EXCEPT !.view = IF thr[th].key = "UP" THEN View_prev(@)
                                          ELSE View_next(@)]
            /\ rtimer' = RepeatTimer_reset(rtimer, None)
            /\ thr' = [Goto(th, "view_enter") EXCEPT ![th].after = "exit"]
    /\ draws' = <<>>
    /\ UNCHANGED <<now, lk, timerVars, switchVars, menu, rows, screen, downs, cfgVars>>

\* key_press: the call `self._current_menu.key_press(key)` of the last branch
MenuKey(th) ==
    /\ thr[th].pc = "branch"
    /\ ~thr[th].long
    /\ ~nav.display_off
    /\ nav.current_menu # "none"
    /\ LET r == Menu_key_press(nav.current_menu, thr[th].key, lists, freq, on_off, rows) IN
         /\ lists' = r.lists
         /\ freq' = r.freq
         /\ on_off' = r.on_off
         /\ draws' = r.draws
         /\ disp' = Println(disp, Len(r.draws))
         /\ UNCHANGED <<nav, ilock>>
         /\ thr' = [Goto(th, "assign") EXCEPT ![th].ret = r.ret,
                                              ![th].wrote = r.wrote]
    /\ UNCHANGED <<now, lk, timerVars, rtimer, switchVars, menu, rows, screen, downs, cfgVars>>

\* key_press: `self._current_menu = ...` and `if self._current_menu is None:`
AssignMenu(th) ==
    /\ thr[th].pc = "assign"
    /\ nav' = [nav EXCEPT !.current_menu = thr[th].ret]
    /\ draws' = <<>>
    /\ UNCHANGED <<lists, freq, on_off, ilock, disp>>
    /\ thr' = IF thr[th].ret = "none"
              THEN [Goto(th, "show_data") EXCEPT ![th].after = "exit"]
              ELSE Goto(th, "exit")
    /\ UNCHANGED <<now, lk, timerVars, rtimer, switchVars, menu, rows, screen, downs, cfgVars>>

\* show_data() up to the call of display_view(); the display config holds the
\* view period the timer was constructed with.
ShowData(th) ==
    /\ thr[th].pc = "show_data"
    /\ nav' = [nav EXCEPT !.current_menu = "none", !.view = 0]
    /\ rtimer' = RepeatTimer_reset(rtimer, rtimer.interval)
    /\ draws' = <<>>
    /\ UNCHANGED <<lists, freq, on_off, ilock, disp>>
    /\ thr' = Goto(th, "view_enter")
    /\ UNCHANGED <<now, lk, timerVars, switchVars, menu, rows, screen, downs, cfgVars>>

\* display_view(): `with self._lock, self._display`
DisplayViewEnter(th) ==
    /\ thr[th].pc = "view_enter"
    /\ RLock_free(ilock, th)
    /\ ilock' = RLock_acquire(ilock, th)
    /\ disp' = ScreenDisplay_enter(disp)
    /\ draws' = <<>>
    /\ UNCHANGED <<nav, lists, freq, on_off>>
    /\ thr' = [Goto(th, "view_draw") EXCEPT ![th].frames = @ + 1]
    /\ UNCHANGED <<now, lk, timerVars, rtimer, switchVars, menu, rows, screen, downs, cfgVars>>

\* display_view(): clear(), then the rows of the view.  The DATE view always
\* has rows; the other views have the measurements the display config
\* switches on (`show`), and with none of them next_view() is called, which
\* moves on to the next view and calls display_view() again.
DisplayViewDraw(th) ==
    /\ thr[th].pc = "view_draw"
    /\ UNCHANGED <<lists, freq, on_off, ilock>>
    /\ \E show \in BOOLEAN :
         IF nav.view = 0 \/ show
         THEN /\ draws' = <<[op |-> "clear"], [op |-> "view", item |-> nav.view]>>
              /\ UNCHANGED nav
              /\ thr' = Goto(th, "view_exit")
         ELSE /\ draws' = <<[op |-> "clear"]>>
              /\ IF nav.current_menu = "none" /\ ~nav.display_off
                 THEN /\ nav' = [nav EXCEPT !.view = View_next(@)]
                      /\ thr' = Goto(th, "view_enter")
                 ELSE /\ UNCHANGED nav
                      /\ thr' = Goto(th, "view_exit")
    /\ disp' = Println(disp, Len(draws'))
    /\ UNCHANGED <<now, lk, timerVars, rtimer, switchVars, menu, rows, screen, downs, cfgVars>>

\* display_view(): leaving `with self._lock, self._display`
DisplayViewExit(th) ==
    /\ thr[th].pc = "view_exit"
    /\ disp' = ScreenDisplay_exit(disp)
    /\ ilock' = RLock_release(ilock)
    /\ draws' = <<>>
    /\ UNCHANGED <<nav, lists, freq, on_off>>
    /\ thr' = [Goto(th, IF thr[th].frames > 1 THEN "view_exit" ELSE thr[th].after)
                 EXCEPT ![th].frames = @ - 1]
    /\ UNCHANGED <<now, lk, timerVars, rtimer, switchVars, menu, rows, screen, downs, cfgVars>>

\* key_press: `self._display.turn_on()` after show_data()
TurnOn(th) ==
    /\ thr[th].pc = "turn_on"
    /\ disp' = [disp EXCEPT !.backlight = TRUE]
    /\ draws' = <<>>
    /\ UNCHANGED <<nav, lists, freq, on_off, ilock>>
    /\ thr' = Goto(th, "exit")
    /\ UNCHANGED <<now, lk, timerVars, rtimer, switchVars, menu, rows, screen, downs, cfgVars>>

\* key_press: leaving `with self._lock, self._display`
KeyPressExit(th) ==
    /\ thr[th].pc = "exit"
    /\ disp' = ScreenDisplay_exit(disp)
    /\ ilock' = RLock_release(ilock)
    /\ draws' = <<>>
    /\ UNCHANGED <<nav, lists, freq, on_off>>
    /\ thr' = [thr EXCEPT ![th] = IdleThread]
    /\ UNCHANGED <<now, lk, timerVars, rtimer, switchVars, menu, rows, screen, downs, cfgVars>>

\* next_view(): `with self._lock`
NextViewEnter(th) ==
    /\ th = "view"
    /\ thr[th].pc = "idle"
    /\ RLock_free(ilock, th)
    /\ ilock' = RLock_acquire(ilock, th)
    /\ disp' = [disp EXCEPT !.flushes = 0]
    /\ draws' = <<>>
    /\ UNCHANGED <<nav, lists, freq, on_off>>
    /\ thr' = Goto(th, "nv_branch")
    /\ UNCHANGED <<now, lk, timerVars, rtimer, switchVars, menu, rows, screen, downs, cfgVars>>

\* Faulty variant of the step below: the view advances whatever is shown.
NextViewUnconditional(th) ==
    /\ thr[th].pc = "nv_branch"
    /\ UNCHANGED <<lists, freq, on_off, ilock, disp>>
    /\ nav' = [nav EXCEPT !.view = View_next(@)]
    /\ thr' = [Goto(th, "view_enter") EXCEPT ![th].after = "release"]
    /\ draws' = <<>>
    /\ UNCHANGED <<now, lk, timerVars, rtimer, switchVars, menu, rows, screen, downs, cfgVars>>

\* next_view(): `if self._current_menu is None and not self.display_off`
NextViewBranch(th) ==
    /\ thr[th].pc = "nv_branch"
    /\ UNCHANGED <<lists, freq, on_off, ilock, disp>>
    /\ IF nav.current_menu = "none" /\ ~nav.display_off
       THEN /\ nav' = [nav EXCEPT !.view = View_next(@)]
            /\ thr' = [Goto(th, "view_enter") EXCEPT ![th].after = "release"]
       ELSE /\ UNCHANGED nav
            /\ thr' = Goto(th, "release")
    /\ draws' = <<>>
    /\ UNCHANGED <<now, lk, timerVars, rtimer, switchVars, menu, rows, screen, downs, cfgVars>>

\* next_view(): leaving `with self._lock`
NextViewExit(th) ==
    /\ thr[th].pc = "release"
    /\ ilock' = RLock_release(ilock)
    /\ draws' = <<>>
    /\ UNCHANGED <<nav, lists, freq, on_off, disp>>
    /\ thr' = [thr EXCEPT ![th] = IdleThread]
    /\ UNCHANGED <<now, lk, timerVars, rtimer, switchVars, menu, rows, screen, downs, cfgVars>>

\* An Interface constructed over Tree on a display of 2 or of MaxR rows; the
\* view timer is started; the FreqencyChoice node and the OnOffConfig leaf
\* start at what the config files hold.
InitInterface ==
    /\ now = 0
    /\ lk = LocksIdle
    /\ timer = [t \in RTimers |-> ResettableTimer_init(1, FALSE)]
    /\ hist = [t \in RTimers |-> HistInit]
    /\ rtimer = RepeatTimer_init(1, TRUE)
    /\ SwitchIdle
    /\ menu = [n |-> 0, selected |-> 0, start_row |-> 0]
    /\ rows \in {2, MaxR}
    /\ draws = <<>>
    /\ screen = BlankScreen(1)
    /\ downs = NoIndex
    /\ \E fq \in 0..(FrequencyCount - 1), oo \in BOOLEAN : InterfaceInit(fq, oo)
    /\ CfgIdle

NextInterface ==
    \E th \in Threads :
        \/ KeyPressEnter(th) \/ LongPressKey(th) \/ CloseLoop(th)
        \/ WakeDisplay(th) \/ OpenMenu(th) \/ IdleKey(th)
        \/ MenuKey(th) \/ AssignMenu(th) \/ ShowData(th)
        \/ DisplayViewEnter(th) \/ DisplayViewDraw(th) \/ DisplayViewExit(th)
        \/ TurnOn(th) \/ KeyPressExit(th)
        \/ NextViewEnter(th) \/ NextViewBranch(th) \/ NextViewExit(th)

SpecInterface == InitInterface /\ [][NextInterface]_vars

\* ---------------------------------------------------------- ConfigManager
\* cache.cached is `cache["config"] is not None`; cache.depth is the depth of
\* the entry's FileLock (the display entry has a nullcontext instead);
\* cache.at is the content the file had when cache.st_mtime was stored.
\* file.torn holds between the truncation by open("w") and the end of
\* config.write.  Every change of the file gives it a new st_mtime.
\*
\* cthr[t].pc is the position of thread t inside ConfigManager:
\*   "idle"     not inside
\*   "g_check"  _get_config: inside `with cls._lock`, before the tests
\*   "g_read"   _get_config: before `with cache["file_lock"]: config.read(...)`
\*   "g_store"  _get_config: the file is parsed into cthr[t].local, the cache
\*              entry not yet assigned
\*   "g_done"   _get_config returned cthr[t].local
\*   "u_open"   update_config_values: before `config_path.open("w")`
\*   "u_write"  update_config_values: the file is truncated, before config.write
\*   "u_stat"   update_config_values: before `cache["st_mtime"] = ...stat()`
\*   "done"     about to leave the with block and return (or raise)
\* cthr[t].shared says that cthr[t].local is the object the cache holds.

\* ConfigManager._lock
\* Faulty variant: a lock that never blocks.
ConfigLockNeverBlocks(l, t) == TRUE
ConfigLock_free(l, t) == l.owner \in {"none", t}

\* Modification times still needed by the updates under way
Reserved ==
    2 * Cardinality({t \in CThreads : cthr[t].op = "update"
                                      /\ cthr[t].pc \notin {"u_stat", "done"}})

\* The outcomes of a system call: TRUE is success, FALSE an OSError
Outcomes == IF faults < MaxFaults THEN BOOLEAN ELSE {TRUE}

\* The outcomes of ConfigParser.read
ReadOutcomes == IF faults < MaxFaults THEN {"ok", "ignored", "oserror"} ELSE {"ok"}

\* Something outside the calls under way has interfered: histories end.
Disturbed(ct) ==
    [t \in CThreads |-> [ct[t] EXCEPT !.wrote = None,
                                      !.disturbed = (ct[t].pc # "idle")]]

\* An OSError at thread t: get_config_value catches it and returns None,
\* update_config_values lets it propagate.
Fail(t) ==
    Disturbed([cthr EXCEPT ![t].pc = "done",
                           ![t].raised = (cthr[t].op = "update"),
                           ![t].result = None,
                           ![t].io = "error"])

\* What a call finds on entry: the cache entry, and whether its time is the file's
Found ==
    [cached |-> cache.cached, same |-> (cache.st_mtime = file.st_mtime),
     config |-> cache.config, st_mtime |-> cache.st_mtime]

\* get_config_value: `config[config_section][key]`, None on KeyError
\* Faulty variant: a key that is missing reads as 1.
LookupWithDefault(table, key) == IF table[key] = None THEN 1 ELSE table[key]
ConfigLookup(table, key) == table[key]

\* _get_config: `st_mtime != cache["st_mtime"]`
\* Faulty variant: the file never counts as changed.
MtimeNeverChanged(c, f) == FALSE
MtimeChanged(c, f) == f.st_mtime # c.st_mtime

\* update_config_values: `cache["st_mtime"] = config_path.stat().st_mtime`
\* Faulty variant: the time of the write is not stored.
StoreMtimeSkipped(c, f) == c
StoreMtime(c, f) == [c EXCEPT !.st_mtime = f.st_mtime, !.at = f.content]

\* get_config_value(key): `with cls._lock`
GetCall(t) ==
    /\ cthr[t].pc = "idle"
    /\ ConfigLock_free(cfg_lock, t)
    /\ cfg_lock' = RLock_acquire(cfg_lock, t)
    /\ \E key \in ConfigKeys :
         cthr' = [u \in CThreads |->
                    IF u = t
                    THEN [cthr[t] EXCEPT !.pc = "g_check", !.op = "get", !.key = key,
                            !.was = Found]
                    ELSE [cthr[u] EXCEPT !.wrote = None]]
    /\ UNCHANGED <<display_config, file, cache, observed, want, faults>>
    /\ UNCHANGED <<now, lk, timerVars, rtimer, switchVars, menuVars, ifaceVars>>

\* update_config_values({key: val}): `with cls._lock, cache["file_lock"]`;
\* FileLock.__enter__ opens the lock file and may raise OSError.
UpdateCall(t) ==
    /\ cthr[t].pc = "idle"
    /\ ConfigLock_free(cfg_lock, t)
    /\ file.st_mtime + Reserved + 2 <= MaxStamp
    /\ cfg_lock' = RLock_acquire(cfg_lock, t)
    /\ \E val \in 1..MaxVal, ok \in Outcomes :
         LET call == [u \in CThreads |->
                        IF u = t
                        THEN [cthr[t] EXCEPT !.pc = "g_check", !.op = "update",
                                !.key = UpdateKey[t], !.val = val, !.wrote = None,
                                !.was = Found]
                        ELSE [cthr[u] EXCEPT !.wrote = None]] IN
         IF ok \/ display_config
         THEN /\ ok
              /\ cthr' = call
              /\ cache' = [cache EXCEPT !.depth = IF display_config THEN @ ELSE @ + 1]
              /\ want' = IF faults > 0 THEN want ELSE [want EXCEPT ![UpdateKey[t]] = val]
              /\ UNCHANGED faults
         ELSE /\ cthr' = Disturbed([call EXCEPT ![t].pc = "done", ![t].raised = TRUE,
                                                ![t].io = "error"])
              /\ faults' = faults + 1
              /\ want' = EmptyTable
              /\ UNCHANGED cache
    /\ UNCHANGED <<display_config, file, observed>>
    /\ UNCHANGED <<now, lk, timerVars, rtimer, switchVars, menuVars, ifaceVars>>

\* _get_config up to the decision to read the file: the display entry is
\* returned as soon as it is cached; an entry without table is read; otherwise
\* stat() (which may raise OSError) and, if the time differs,
\* `cache["st_mtime"] = st_mtime` before the file is read.
GCheck(t) ==
    /\ cthr[t].pc = "g_check"
    /\ IF display_config /\ cache.cached
       THEN /\ cthr' = [cthr EXCEPT ![t].pc = "g_done", ![t].local = cache.config,
                                    ![t].shared = TRUE]
            /\ UNCHANGED <<cache, want, faults>>
       ELSE IF ~cache.cached
       THEN /\ cthr' = [cthr EXCEPT ![t].pc = "g_read", ![t].first = TRUE]
            /\ UNCHANGED <<cache, want, faults>>
       ELSE \E ok \in Outcomes :
              IF ~ok
              THEN /\ cthr' = Fail(t)
                   /\ faults' = faults + 1
                   /\ want' = EmptyTable
                   /\ UNCHANGED cache
              ELSE IF MtimeChanged(cache, file)
              THEN /\ cache' = [cache EXCEPT !.st_mtime = file.st_mtime,
                                             !.at = file.content]
                   /\ cthr' = [cthr EXCEPT ![t].pc = "g_read", ![t].first = FALSE]
                   /\ UNCHANGED <<want, faults>>
              ELSE /\ cthr' = [cthr EXCEPT ![t].pc = "g_done",
                                           ![t].local = cache.config,
                                           ![t].shared = TRUE]
                   /\ UNCHANGED <<cache, want, faults>>
    /\ UNCHANGED <<display_config, file, cfg_lock, observed>>
    /\ UNCHANGED <<now, lk, timerVars, rtimer, switchVars, menuVars, ifaceVars>>

\* _get_config: `config = ConfigParser(); with cache["file_lock"]:
\* config.read(config_file)`.  The read parses the file; it returns an empty
\* table without raising when the file cannot be opened ("ignored"); entering
\* the FileLock or reading may raise OSError.
GRead(t) ==
    /\ cthr[t].pc = "g_read"
    /\ \E outcome \in ReadOutcomes :
         CASE outcome = "ok" ->
                /\ cthr' = [cthr EXCEPT ![t].pc = "g_store", ![t].parsed = TRUE,
                                        ![t].local = file.content, ![t].shared = FALSE]
                /\ UNCHANGED <<want, faults>>
           [] outcome = "ignored" ->
                /\ cthr' = Disturbed([cthr EXCEPT ![t].pc = "g_store",
                                                  ![t].local = EmptyTable,
                                                  ![t].shared = FALSE,
                                                  ![t].io = "ignored"])
                /\ faults' = faults + 1
                /\ want' = EmptyTable
           [] outcome = "oserror" ->
                /\ cthr' = Fail(t)
                /\ faults' = faults + 1
                /\ want' = EmptyTable
    /\ UNCHANGED <<display_config, file, cache, cfg_lock, observed>>
    /\ UNCHANGED <<now, lk, timerVars, rtimer, switchVars, menuVars, ifaceVars>>

\* _get_config: with no table cached, `cache["st_mtime"] = ...stat().st_mtime`
\* (which may raise OSError) and `cache["config"] = config`; after a reload
\* only `cache["config"] = config`.
GStore(t) ==
    /\ cthr[t].pc = "g_store"
    /\ \E ok \in Outcomes :
         IF cthr[t].first /\ ~ok
         THEN /\ cthr' = Fail(t)
              /\ faults' = faults + 1
              /\ want' = EmptyTable
              /\ UNCHANGED cache
         ELSE /\ ok
              /\ cache' = IF cthr[t].first
                          THEN [cache EXCEPT !.cached = TRUE, !.config = cthr[t].local,
                                             !.st_mtime = file.st_mtime,
                                             !.at = file.content]
                          ELSE [cache EXCEPT !.cached = TRUE, !.config = cthr[t].local]
              /\ cthr' = [u \in CThreads |->
                            IF u = t THEN [cthr[t] EXCEPT !.pc = "g_done", !.shared = TRUE]
                            ELSE [cthr[u] EXCEPT !.shared = FALSE]]
              /\ UNCHANGED <<want, faults>>
    /\ UNCHANGED <<display_config, file, cfg_lock, observed>>
    /\ UNCHANGED <<now, lk, timerVars, rtimer, switchVars, menuVars, ifaceVars>>

\* get_config_value: `return str(config[config_section][key])`, None on KeyError
GetReturn(t) ==
    /\ cthr[t].pc = "g_done"
    /\ cthr[t].op = "get"
    /\ cthr' = [cthr EXCEPT ![t].pc = "done",
                             ![t].result = ConfigLookup(cthr[t].local, cthr[t].key)]
    /\ UNCHANGED <<display_config, file, cache, cfg_lock, observed, want, faults>>
    /\ UNCHANGED <<now, lk, timerVars, rtimer, switchVars, menuVars, ifaceVars>>

\* update_config_values: `config[config_section][key] = value` on the object
\* _get_config returned, which is the object the cache holds
UMerge(t) ==
    /\ cthr[t].pc = "g_done"
    /\ cthr[t].op = "update"
    /\ LET merged == [cthr[t].local EXCEPT ![cthr[t].key] = cthr[t].val] IN
         /\ cthr' = [u \in CThreads |->
                       IF u = t THEN [cthr[t] EXCEPT !.pc = "u_open", !.local = merged]
                       ELSE IF cthr[t].shared /\ cthr[u].shared
                       THEN [cthr[u] EXCEPT !.local = merged]
                       ELSE cthr[u]]
         /\ cache' = IF cthr[t].shared THEN [cache EXCEPT !.config = merged] ELSE cache
    /\ UNCHANGED <<display_config, file, cfg_lock, observed, want, faults>>
    /\ UNCHANGED <<now, lk, timerVars, rtimer, switchVars, menuVars, ifaceVars>>

\* update_config_values: `config_path.open("w")` truncates the file in place,
\* or raises OSError and leaves it alone.
UOpen(t) ==
    /\ cthr[t].pc = "u_open"
    /\ \E ok \in Outcomes :
         IF ok
         THEN /\ file' = [content |-> EmptyTable, st_mtime |-> file.st_mtime + 1,
                          torn |-> TRUE]
              /\ cthr' = [cthr EXCEPT ![t].pc = "u_write"]
              /\ UNCHANGED <<want, faults>>
         ELSE /\ cthr' = Fail(t)
              /\ faults' = faults + 1
              /\ want' = EmptyTable
              /\ UNCHANGED file
    /\ UNCHANGED <<display_config, cache, cfg_lock, observed>>
    /\ UNCHANGED <<now, lk, timerVars, rtimer, switchVars, menuVars, ifaceVars>>

\* update_config_values: `config.write(file)` and the close of the file; an
\* OSError (no space left) leaves the file truncated.
UWrite(t) ==
    /\ cthr[t].pc = "u_write"
    /\ \E ok \in Outcomes :
         IF ok
         THEN /\ file' = [content |-> cthr[t].local, st_mtime |-> file.st_mtime + 1,
                          torn |-> FALSE]
              /\ cthr' = [cthr EXCEPT ![t].pc = "u_stat"]
              /\ UNCHANGED <<want, faults>>
         ELSE /\ cthr' = Fail(t)
              /\ faults' = faults + 1
              /\ want' = EmptyTable
              /\ UNCHANGED file
    /\ UNCHANGED <<display_config, cache, cfg_lock, observed>>
    /\ UNCHANGED <<now, lk, timerVars, rtimer, switchVars, menuVars, ifaceVars>>

\* update_config_values: `cache["st_mtime"] = config_path.stat().st_mtime`
UStat(t) ==
    /\ cthr[t].pc = "u_stat"
    /\ \E ok \in Outcomes :
         IF ok
         THEN /\ cache' = StoreMtime(cache, file)
              /\ cthr' = [cthr EXCEPT ![t].pc = "done", ![t].wrote = cthr[t].val]
              /\ UNCHANGED <<want, faults>>
         ELSE /\ cthr' = Fail(t)
              /\ faults' = faults + 1
              /\ want' = EmptyTable
              /\ UNCHANGED cache
    /\ UNCHANGED <<display_config, file, cfg_lock, observed>>
    /\ UNCHANGED <<now, lk, timerVars, rtimer, switchVars, menuVars, ifaceVars>>

\* The end of the with block of get_config_value or update_config_values:
\* FileLock.__exit__ (update of the sensor entry) and the release of _lock.
CallReturn(t) ==
    /\ cthr[t].pc = "done"
    /\ cfg_lock' = RLock_release(cfg_lock)
    /\ cache' = [cache EXCEPT !.depth = IF cthr[t].op = "update" /\ @ > 0
                                         THEN @ - 1 ELSE @]
    /\ cthr' = [cthr EXCEPT ![t] = IdleCaller(cthr[t].wrote)]
    /\ UNCHANGED <<display_config, file, observed, want, faults>>
    /\ UNCHANGED <<now, lk, timerVars, rtimer, switchVars, menuVars, ifaceVars>>

\* Another program replaces the content of the file.
ExternalWrite ==
    /\ ~file.torn
    /\ faults < MaxFaults
    /\ file.st_mtime + Reserved + 1 <= MaxStamp
    /\ \E k \in ConfigKeys, v \in 0..MaxVal :
         /\ v # file.content[k]
         /\ file' = [content |-> [file.content EXCEPT ![k] = v],
                     st_mtime |-> file.st_mtime + 1, torn |-> FALSE]
    /\ cthr' = Disturbed(cthr)
    /\ faults' = faults + 1
    /\ want' = EmptyTable
    /\ UNCHANGED <<display_config, cache, cfg_lock, observed>>
    /\ UNCHANGED <<now, lk, timerVars, rtimer, switchVars, menuVars, ifaceVars>>

\* Device._update_freq, a tick of config_timer, up to the call of
\* _get_current_conf: the file's modification time is compared with
\* last_mtime and stored when it differs; a tick that finds it equal returns.
Device_update_freq ==
    /\ ~display_config
    /\ observed.pc = "idle"
    /\ observed' = IF file.st_mtime # observed.last_mtime
                      THEN [observed EXCEPT !.pc = "read",
                                            !.last_mtime = file.st_mtime]
                      ELSE observed
    /\ UNCHANGED <<display_config, file, cache, cfg_lock, cthr, want, faults>>
    /\ UNCHANGED <<now, lk, timerVars, rtimer, switchVars, menuVars, ifaceVars>>

\* Device._get_current_conf on the config watcher thread and the loop of
\* _update_freq over its result: `config.read(self.config_file)` without any
\* lock, then `self.sensor_timers[sensor_type].interval = new_freq` for each
\* key of the file.  A file found empty has no section 'sensors_config': the
\* KeyError leaves _update_freq and RepeatTimer.run, and the watcher thread
\* ends.
WatcherRead ==
    /\ observed.pc = "read"
    /\ observed' =
         IF file.torn
           THEN [observed EXCEPT !.pc = "dead", !.read = "torn"]
           ELSE [observed EXCEPT
                   !.pc = "idle", !.read = "complete",
                   !.interval = [k \in ConfigKeys |->
                                   IF file.content[k] # None
                                     THEN file.content[k] ELSE @[k]]]
    /\ UNCHANGED <<display_config, file, cache, cfg_lock, cthr, want, faults>>
    /\ UNCHANGED <<now, lk, timerVars, rtimer, switchVars, menuVars, ifaceVars>>

\* One entry of ConfigManager, the sensor config or the display config, over
\* a file that holds the key "c" or no key; nothing is cached.
InitConfig ==
    /\ now = 0
    /\ lk = LocksIdle
    /\ timer = [t \in RTimers |-> ResettableTimer_init(1, FALSE)]
    /\ hist = [t \in RTimers |-> HistInit]
    /\ rtimer = RepeatTimer_init(1, FALSE)
    /\ SwitchIdle
    /\ MenuIdle
    /\ IfaceIdle
    /\ \E dc \in BOOLEAN, c \in {None, 1} :
         ConfigInit(dc, [EmptyTable EXCEPT !["c"] = c])

NextConfig ==
    \/ \E t \in CThreads :
          \/ GetCall(t) \/ UpdateCall(t) \/ GCheck(t) \/ GRead(t) \/ GStore(t)
          \/ GetReturn(t) \/ UMerge(t) \/ UOpen(t) \/ UWrite(t) \/ UStat(t)
          \/ CallReturn(t)
    \/ ExternalWrite

SpecConfig == InitConfig /\ [][NextConfig]_vars

\* The same callers and writers with the config watcher of Device running
\* beside them.  The watcher writes neither the file nor the cache, so the
\* callers of ConfigManager behave as under SpecConfig.
NextWatcher ==
    \/ NextConfig
    \/ Device_update_freq
    \/ WatcherRead

SpecWatcher == InitConfig /\ [][NextWatcher]_vars

\* Every thread of the process is outside its calls; the timers, the switch,
\* the menu and the config store are as constructed and stay so.
InitLocks ==
    /\ now = 0
    /\ lk = LocksIdle
    /\ timer = [t \in RTimers |-> ResettableTimer_init(1, FALSE)]
    /\ hist = [t \in RTimers |-> HistInit]
    /\ rtimer = RepeatTimer_init(1, FALSE)
    /\ SwitchIdle
    /\ MenuIdle
    /\ IfaceIdle
    /\ CfgIdle

NextLocks ==
    \E th \in DOMAIN LockPaths :
        PathBegin(th) \/ PathAcquire(th) \/ PathRelease(th) \/ PathStep(th)

SpecLocks == InitLocks /\ [][NextLocks]_vars

\* ------------------------------------------------------------------------
\* Properties of the timers (checked under SpecTimer)
\* ------------------------------------------------------------------------

\* C1: for a started ResettableTimer, resets that each arrive strictly before
\* the pending countdown expires lead to exactly one invocation of the action,
\* one interval after the last reset: never more than one invocation, the one
\* invocation at (last reset) + interval, and the clock never passes that
\* moment without the invocation.
C1_FiresOnceAfterLastReset ==
    \A t \in RTimers :
        hist[t].burst = "strict" =>
            /\ hist[t].count <= 1
            /\ hist[t].count = 1 => hist[t].firedAt = hist[t].due
            /\ hist[t].count = 0 => now <= hist[t].due

\* Several resets, the last one inside the countdown of an earlier one, and the
\* action has run.
C1_Witness ==
    /\ hist["T"].burst = "strict"
    /\ hist["T"].resets >= 2
    /\ hist["T"].count = 1
    /\ hist["T"].firedAt = hist["T"].due
    /\ hist["T"].firedAt > timer["T"].interval

\* C2: when reset() arrives at the instant the armed countdown expires, the
\* reset wins: the action is not invoked for the expired countdown, and is
\* invoked exactly once, one interval after the reset.
C2_ResetWinsExpiryRace ==
    \A t \in RTimers :
        hist[t].burst = "raced" =>
            /\ hist[t].count <= 1
            /\ hist[t].count = 1 => hist[t].firedAt = hist[t].due
            /\ hist[t].count = 0 => now <= hist[t].due

\* C3: after stop(), called at any moment after a reset() and before the
\* action has run, the action is not invoked until a later reset().
C3_NoFireWhileStopped ==
    [][\A t \in RTimers :
          hist'[t].count = hist[t].count + 1 => ~hist[t].stopped]_vars

\* C4 as claimed: once cancel() has returned the waiter has exited.
C4_CancelSynchronous ==
    \A t \in RTimers : timer[t].end => timer[t].pc = "exited"

\* C4 amended: cancel() is terminal but not synchronous.  Once cancel() has
\* returned the waiter is never left blocked and never arms another countdown:
\* a waiter inside the timed wait has been notified, a waiter in
\* finished.wait() finds finished set, so it leaves on its next steps.
C4_CancelledWaiterIsLeaving ==
    \A t \in RTimers :
        timer[t].end =>
            /\ timer[t].pc = "cond_wait" => timer[t].notified
            /\ timer[t].pc = "finished_wait" => timer[t].finished
            /\ timer[t].finished

\* cancel() returned while the waiter was counting down; the waiter has not
\* exited yet.
C4_Witness ==
    /\ timer["T"].end
    /\ timer["T"].pc = "cond_wait"
    /\ timer["T"].notified

\* C5: a second cancel() on an already cancelled timer changes nothing of a
\* ResettableTimer (flags, waiter, invocations); on a RepeatTimer it leaves
\* stop and finished as the first cancel left them (both True), wakes no
\* waiter and changes neither the waiter nor the invocations.
C5_SecondCancelIsNoOp ==
    [][/\ \A t \in RTimers :
             (hist[t].cancels >= 1 /\ hist'[t].cancels = hist[t].cancels + 1) =>
                 /\ timer'[t] = timer[t]
                 /\ hist'[t].count = hist[t].count
       /\ (rtimer.cancels >= 1 /\ rtimer'.cpc # rtimer.cpc) =>
             /\ rtimer.stop /\ rtimer'.stop
             /\ rtimer'.pc = rtimer.pc
             /\ rtimer'.count = rtimer.count
             /\ rtimer'.interval = rtimer.interval
             /\ rtimer'.deadline = rtimer.deadline
             /\ ~(rtimer.pc = "wait" /\ ~rtimer.finished)
             /\ rtimer'.cpc = "idle" => rtimer'.finished]_vars

\* The ResettableTimer was cancelled twice before its waiter woke up.
C5_Witness ==
    /\ hist["T"].cancels = 2
    /\ timer["T"].pc = "cond_wait"

\* C34: once cancel() has returned on a ResettableTimer or a RepeatTimer the
\* action is not invoked any more, and no countdown is armed any more, whatever
\* reset() calls follow.
C34_NoActionAfterCancel ==
    [][/\ \A t \in RTimers :
             hist[t].cancels > 0 =>
                 /\ hist'[t].count # hist[t].count + 1
                 /\ timer'[t].pc = "cond_wait" => timer[t].pc = "cond_wait"
       /\ (rtimer.cancels > 0 /\ rtimer.cpc = "idle") =>
             rtimer'.count = rtimer.count]_vars

\* ------------------------------------------------------------------------
\* The RepeatTimer over time (checked under SpecTimerFair)
\* ------------------------------------------------------------------------

\* The action is called at every whole interval: with no reset() and no
\* cancel() so far the number of calls is the number of intervals elapsed,
\* less the call that is due at this very instant and not yet made.
RepeatPeriodic ==
    (rtimer.pc # "unstarted" /\ ~rtimer.was_reset /\ rtimer.cancels = 0
       /\ rtimer.cpc = "idle")
    => LET due == rtimer.pc = "call" \/ (rtimer.pc = "wait" /\ now >= rtimer.deadline)
       IN  /\ rtimer.count = (now \div rtimer.interval) - (IF due THEN 1 ELSE 0)
           /\ rtimer.pc = "wait" => rtimer.deadline = (rtimer.count + 1) * rtimer.interval
           /\ rtimer.pc # "exited"

\* Once cancel() has returned the waiter is on its way out: it has exited, or
\* is at a step that leads to the test of self.stop, or is in a wait that
\* finished has already ended.
RepeatLeaving ==
    (rtimer.cancels > 0 /\ rtimer.cpc = "idle")
    => /\ rtimer.stop
       /\ rtimer.pc = "wait" => rtimer.finished

\* C29: a started RepeatTimer that is not reset calls its action once per
\* elapsed interval until cancel() is called; once cancel() has returned no
\* wait can time out any more (no call of the action becomes due), and the
\* loop terminates.
C29_RepeatsUntilCancelled ==
    /\ []RepeatPeriodic
    /\ []RepeatLeaving
    /\ [][(rtimer.cancels > 0 /\ rtimer.cpc = "idle" /\ rtimer.pc # "call")
            => rtimer'.pc # "call"]_vars
    /\ (rtimer.cancels > 0) ~> (rtimer.pc = "exited")

\* The timer of interval 2 has called its action three times by time 6 and
\* was cancelled then: the waiter has exited.
C29_Witness ==
    /\ rtimer.interval = 2
    /\ ~rtimer.was_reset
    /\ rtimer.count = 3
    /\ now = 6
    /\ rtimer.cancels = 1
    /\ rtimer.pc = "exited"

\* ------------------------------------------------------------------------
\* Properties of the Switch (checked under SpecSwitch)
\* ------------------------------------------------------------------------

\* C6 as claimed: any burst of raw edges, each less than the debounce interval
\* after the one before, followed by a level that stays stable for the
\* debounce interval, produces exactly one change_state call.
C6_AnyBurstOneCommit ==
    (sw.burst = "tight" /\ now > sw.lastEdge + DebounceTicks) => sw.commits = 1

\* C6 amended: such a burst that ends on a level different from the committed
\* one produces exactly one change_state call, whatever its length: none
\* during the burst, one when the level has been stable for the debounce
\* interval, and the committed state is then the pin's level.
C6_BurstToNewLevelOneCommit ==
    (sw.burst = "tight" /\ (rawLevel = 1) # sw.base) =>
        /\ sw.commits <= 1
        /\ sw.commits = 1 => (now >= sw.lastEdge + DebounceTicks
                              /\ current_state = (rawLevel = 1))
        /\ now > sw.lastEdge + DebounceTicks => sw.commits = 1

\* A burst of three edges, then a stable level: one commit.
C6_Witness ==
    /\ sw.burst = "tight"
    /\ sw.len >= 3
    /\ (rawLevel = 1) # sw.base
    /\ sw.commits = 1
    /\ now > sw.lastEdge + DebounceTicks

\* What a clean press emits: the click one debounce interval after the press
\* edge, the long press one long-press interval later, and after the release
\* edge the commit to released one debounce interval after it.
ExpectedEvents ==
    LET click == <<"click", sw.pressAt + DebounceTicks>>
        long == <<"long", sw.pressAt + DebounceTicks + LongPushTicks>>
        released == <<"released", sw.releaseAt + DebounceTicks>>
    IN IF sw.scenario = "released" THEN <<click, long, released>> ELSE <<click, long>>

\* C7: a clean press held longer than debounce + long-press time and then
\* released produces, in this order and with nothing else: commit to pressed
\* with the click at press + debounce, the long press one long-press interval
\* after that commit, the commit to released at release + debounce; nothing
\* afterwards.  At every moment the events so far are a prefix of that
\* sequence, and each event has happened once its time has passed.
C7_CleanPressEvents ==
    sw.scenario \in {"pressed", "released"} =>
        /\ Len(events) <= Len(ExpectedEvents)
        /\ \A i \in 1..Len(events) : events[i] = ExpectedEvents[i]
        /\ now > sw.pressAt + DebounceTicks => Len(events) >= 1
        /\ now > sw.pressAt + DebounceTicks + LongPushTicks => Len(events) >= 2
        /\ (sw.scenario = "released" /\ now > sw.releaseAt + DebounceTicks) =>
               Len(events) = 3

\* The press was held past the long-press time and released, the release is
\* committed and time has moved on.
C7_Witness ==
    /\ sw.scenario = "released"
    /\ Len(events) = 3
    /\ events[3][1] = "released"
    /\ now > sw.releaseAt + DebounceTicks

\* C8: once the switch has committed to released before the long-press action
\* of the current press ran, no long-press event is emitted for that press:
\* no "long" follows a "released" without a new click in between.
C8_NoLongPressAfterRelease ==
    \A i, j \in 1..Len(events) :
        (i < j /\ events[i][1] = "released" /\ events[j][1] = "long") =>
            \E k \in (i + 1)..(j - 1) : events[k][1] = "click"

\* C9: a raw edge that differs from the committed level resets the debounce
\* timer and one that equals it stops the countdown, so that no commit follows
\* a bounce that returned to the committed level.
C9_NoCommitAfterBounceBack ==
    (sw.burst = "tight" /\ (rawLevel = 1) = sw.base) => sw.commits = 0

\* C33: whenever the Switch is quiescent (no edge_change call under way, the
\* debounce timer at rest with no countdown pending, no commit in progress)
\* the committed state equals the last raw level of the pin.
C33_CommittedFollowsPin ==
    (sw.clean = "none" /\ edge_pc = "idle" /\ Quiescent(timer["deb"]))
        => current_state = (rawLevel = 1)

C10_ViewportInvariant ==
    /\ menu.start_row <= menu.selected
    /\ menu.selected <= menu.start_row + rows - 1
    /\ 0 <= menu.start_row
    /\ menu.start_row <= Max(0, menu.n - rows)

\* A list longer than the display, scrolled to its last element by Down.
C10_Witness ==
    /\ menu.n > rows
    /\ menu.selected = menu.n - 1
    /\ menu.start_row = menu.n - rows
    /\ Len(draws) = 2
    /\ draws[2].op = "push_back"

\* ------------------------------------------------------------------------
\* Properties of Interface over the menu tree (checked under SpecInterface)
\* ------------------------------------------------------------------------

\* C11: in every reachable state, after any sequence of Up/Down/Confirm/Cancel
\* events, short or long, every MenuList of the tree has
\* 0 <= selected < number of children when it has children, and selected = 0
\* when it has none.
C11_SelectedInRange ==
    \A l \in Lists :
        IF Len(Tree[l]) = 0
        THEN lists[l].selected = 0
        ELSE 0 <= lists[l].selected /\ lists[l].selected < Len(Tree[l])

\* Down was pressed on the last element of the list "sub": nothing moved and
\* nothing was drawn.
C11_Witness ==
    /\ thr["click"].pc = "assign"
    /\ thr["click"].key = "DOWN"
    /\ nav.current_menu = "sub"
    /\ lists["sub"].selected = Len(Tree["sub"]) - 1
    /\ draws = <<>>

\* C17: key events delivered from different timer threads and view-rotation
\* ticks are handled one at a time: at most one thread is inside
\* Interface.key_press or Interface.next_view, and at each of its steps a
\* handler finds the navigation state (active menu, selections, viewports,
\* display_off, view) exactly as its own previous step left it.
C17_HandlersOneAtATime ==
    /\ Cardinality({th \in Threads : thr[th].pc # "idle"}) <= 1
    /\ \A th \in Threads : thr[th].pc # "idle" => thr[th].seen = NavState

\* The click thread is half way through Cancel on the list "sub": the list is
\* already reset, _current_menu is not yet replaced by the parent; the lock
\* keeps the long-press thread and the view timer out.
C17_Witness ==
    /\ thr["click"].pc = "assign"
    /\ thr["click"].key = "CANCEL"
    /\ nav.current_menu = "sub"
    /\ thr["click"].ret = "root"
    /\ ~RLock_free(ilock, "long")
    /\ ~RLock_free(ilock, "view")

\* C18: while a display batch is open (context_manager_depth > 0, nested
\* batches included) the device is not updated, and it is updated exactly
\* when the outermost batch exits: a step updates the device only if it takes
\* the depth from 1 to 0, and then exactly once; every step that closes the
\* outermost batch updates the device and leaves nothing pending; a step that
\* closes a nested batch updates nothing.  So all the display calls of one key
\* event or one view redraw reach the device in one update.
C18_FlushAtOutermostExitOnly ==
    [][/\ disp'.flushes > disp.flushes =>
            /\ disp.context_manager_depth = 1
            /\ disp'.context_manager_depth = 0
            /\ disp'.flushes = disp.flushes + 1
       /\ (disp.context_manager_depth > 0 /\ disp'.context_manager_depth = 0) =>
            /\ disp'.flushes = disp.flushes + 1
            /\ disp'.pending = 0
       /\ (disp'.context_manager_depth < disp.context_manager_depth
             /\ disp'.context_manager_depth > 0) =>
            /\ disp'.flushes = disp.flushes
            /\ disp'.pending = disp.pending
      ]_vars

\* A click in the idle view went through three nested display_view batches
\* (two views without rows) inside the batch of key_press; the nested batches
\* are closed, four display calls are pending and the device was not updated.
C18_Witness ==
    /\ thr["click"].pc = "exit"
    /\ disp.context_manager_depth = 1
    /\ disp.pending = 4
    /\ disp.flushes = 0

\* ------------------------------------------------------------------------
\* Properties of one key press on a MenuList (checked under SpecMenuList)
\* ------------------------------------------------------------------------

\* C19: Up on a MenuList.  With selected > 0, selected decreases by one; if
\* the new selection is below start_row, start_row decreases by exactly one
\* and one full-viewport redraw is issued; otherwise start_row is unchanged and
\* exactly two single-row updates are issued, the old row without highlight,
\* then the new row with highlight.  With selected = 0 nothing changes and
\* nothing is drawn.
C19_UpEffect ==
    [][Up =>
        IF menu.selected > 0
        THEN /\ menu'.selected = menu.selected - 1
             /\ menu'.n = menu.n
             /\ IF menu'.selected < menu.start_row
                THEN /\ menu'.start_row = menu.start_row - 1
                     /\ draws' = <<[op |-> "print_lines",
                                    first |-> menu'.start_row,
                                    count |-> Min(rows, menu.n - menu'.start_row),
                                    highlight |-> menu'.selected - menu'.start_row]>>
                ELSE /\ menu'.start_row = menu.start_row
                     /\ draws' = <<[op |-> "update_row",
                                    row |-> menu.selected - menu.start_row,
                                    item |-> menu.selected, highlight |-> FALSE],
                                   [op |-> "update_row",
                                    row |-> menu'.selected - menu.start_row,
                                    item |-> menu'.selected, highlight |-> TRUE]>>
        ELSE /\ menu' = menu
             /\ draws' = <<>>
             /\ screen' = screen
      ]_vars

\* Up has just scrolled a list on the tallest display: the selection is the
\* first visible row, not the first element, and the viewport was redrawn.
C19_Witness ==
    /\ rows = MaxR
    /\ menu.start_row > 0
    /\ menu.selected = menu.start_row
    /\ downs = NoIndex
    /\ Len(draws) = 1
    /\ draws[1].op = "print_lines"

\* The terminal shows the viewport of list m: row y shows element
\* start_row + y, highlighted exactly when it is the selection, and rows past
\* the end of the list are blank.
Shown(m, sc, R) ==
    \A y \in 0..(R - 1) :
        sc.rows[y + 1] =
            IF m.start_row + y < m.n
            THEN [item |-> m.start_row + y, highlight |-> (m.start_row + y = m.selected)]
            ELSE [item |-> NoIndex, highlight |-> FALSE]

\* What one Down step does to selection, viewport and display.
DownEffect ==
    IF menu.selected + 1 < menu.n
    THEN /\ menu'.selected = menu.selected + 1
         /\ menu'.n = menu.n
         /\ IF menu'.selected > menu.start_row + rows - 1
            THEN /\ menu'.start_row = menu.start_row + 1
                 /\ Shown(menu, screen, rows) => Shown(menu', screen', rows)
            ELSE /\ menu'.start_row = menu.start_row
                 /\ draws' = <<[op |-> "update_row",
                                row |-> menu.selected - menu.start_row,
                                item |-> menu.selected, highlight |-> FALSE],
                               [op |-> "update_row",
                                row |-> menu'.selected - menu.start_row,
                                item |-> menu'.selected, highlight |-> TRUE]>>
                 /\ Shown(menu, screen, rows) => Shown(menu', screen', rows)
    ELSE /\ menu' = menu
         /\ draws' = <<>>
         /\ screen' = screen

\* C20 as stated: Down moves the selection by one while selected + 1 < N,
\* shifts the viewport by exactly one when the selection would pass row
\* start_row + R - 1, the display then showing rows start_row .. start_row+R-1
\* with only the new selection highlighted, and swaps two highlights otherwise;
\* and k Downs from selected = 0, start_row = 0 give selected = min(k, N - 1),
\* start_row = max(0, selected - R + 1), for every list.
C20_DownAsStated ==
    [][Down =>
        /\ DownEffect
        /\ downs' # NoIndex =>
             /\ menu'.selected = Min(downs', menu'.n - 1)
             /\ menu'.start_row = Max(0, menu'.selected - rows + 1)
      ]_vars

\* C20, amended: the same step effect; k Downs from selected = 0,
\* start_row = 0 give selected = min(k, N - 1) and
\* start_row = max(0, selected - R + 1) on a list with at least one element,
\* and leave selected = 0 and start_row = 0 on an empty list.
C20_DownEffect ==
    [][Down =>
        /\ DownEffect
        /\ downs' # NoIndex =>
             /\ menu'.selected = IF menu'.n = 0 THEN 0 ELSE Min(downs', menu'.n - 1)
             /\ menu'.start_row = Max(0, menu'.selected - rows + 1)
      ]_vars

\* Ten elements on four rows, six Downs from the top: selected = 6,
\* start_row = 3, and the terminal shows elements 3 .. 6 with 6 highlighted.
C20_Witness ==
    /\ menu.n = 10
    /\ rows = 4
    /\ downs = 6
    /\ menu.selected = 6
    /\ menu.start_row = 3
    /\ draws[2].op = "push_back"
    /\ Shown(menu, screen, rows)

\* ------------------------------------------------------------------------
\* Properties of the keys inside the menu (checked under SpecInterface)
\* ------------------------------------------------------------------------

\* The element under the selection of the active MenuList, "none" if the
\* active menu is no MenuList or has no element there
SelectedChild ==
    LET cm == nav.current_menu IN
    IF cm \in Lists /\ lists[cm].selected < Len(Tree[cm])
    THEN Tree[cm][lists[cm].selected + 1] ELSE "none"

\* The print_lines call that shows the whole viewport of the MenuList l
FullRedrawOf(l) ==
    <<[op |-> "print_lines", first |-> lists[l].start_row,
       count |-> Max(0, Min(rows, Len(Tree[l]) - lists[l].start_row)),
       highlight |-> lists[l].selected - lists[l].start_row]>>

\* C21: Confirm on a MenuList whose selected child is a menu returns the
\* child, which becomes the active menu, issues the full redraw of the child
\* (its own viewport, or the screen of a FreqencyChoice) and nothing else, and
\* changes no list's selected or start_row.
C21_ConfirmOnMenuChild ==
    [][\A th \in Threads :
        /\ (MenuKey(th) /\ thr[th].key = "OK" /\ SelectedChild \in Menus) =>
              /\ thr'[th].ret = SelectedChild
              /\ lists' = lists
              /\ draws' = IF SelectedChild = "freq"
                          THEN <<[op |-> "clear"],
                                 [op |-> "frequency", item |-> freq.new_frequency]>>
                          ELSE FullRedrawOf(SelectedChild)
        /\ (AssignMenu(th) /\ thr[th].key = "OK" /\ thr[th].ret \in Menus) =>
              /\ nav'.current_menu = thr[th].ret
              /\ lists' = lists
      ]_vars

\* Confirm on "sub" with "inner" selected returned "inner" and drew its two rows.
C21_Witness ==
    /\ thr["click"].pc = "assign"
    /\ thr["click"].key = "OK"
    /\ nav.current_menu = "sub"
    /\ thr["click"].ret = "inner"
    /\ draws = <<[op |-> "print_lines", first |-> 0, count |-> 2, highlight |-> 0]>>

\* C22: Confirm on a MenuList whose selected child is a leaf calls the leaf
\* once (the OnOffConfig leaf flips once), keeps the active menu and every
\* selected and start_row, and issues one update_row of the selected row,
\* highlighted, when the call changed the label (OnOffConfig) and no display
\* call when it did not (plain element).
C22_ConfirmOnLeaf ==
    [][\A th \in Threads :
        /\ (MenuKey(th) /\ thr[th].key = "OK" /\ SelectedChild \in {"toggle", "leaf"}) =>
              LET cm == nav.current_menu IN
              /\ thr'[th].ret = cm
              /\ lists' = lists
              /\ freq' = freq
              /\ on_off' = IF SelectedChild = "toggle" THEN ~on_off ELSE on_off
              /\ draws' = IF SelectedChild = "toggle"
                          THEN <<[op |-> "update_row",
                                  row |-> lists[cm].selected - lists[cm].start_row,
                                  item |-> lists[cm].selected, highlight |-> TRUE]>>
                          ELSE <<>>
        /\ (AssignMenu(th) /\ thr[th].key = "OK" /\ thr[th].ret = nav.current_menu) =>
              /\ nav' = nav
              /\ lists' = lists
      ]_vars

\* Confirm on the OnOffConfig leaf of "sub", scrolled to row 1 of a display of
\* two rows (element 1 is selected, start_row is 0), drew that one row.
C22_Witness ==
    /\ thr["click"].pc = "assign"
    /\ thr["click"].key = "OK"
    /\ nav.current_menu = "sub"
    /\ thr["click"].ret = "sub"
    /\ draws = <<[op |-> "update_row", row |-> 1, item |-> 1, highlight |-> TRUE]>>

\* C23 as stated: after Cancel on a menu with a parent the parent is returned,
\* the selection and the viewport start of the navigation state (those of the
\* menu now active, the parent) are 0, and the parent is redrawn so.
C23_CancelAsStated ==
    [][\A th \in Threads :
        (MenuKey(th) /\ thr[th].key = "CANCEL" /\ nav.current_menu # "none"
           /\ Parent[nav.current_menu] # "none") =>
              LET par == Parent[nav.current_menu] IN
              /\ thr'[th].ret = par
              /\ lists'[par] = [selected |-> 0, start_row |-> 0]
              /\ draws' = <<[op |-> "print_lines", first |-> 0,
                             count |-> Min(rows, Len(Tree[par])), highlight |-> 0]>>
      ]_vars

\* C23: Cancel on a menu with a parent returns the parent, which becomes the
\* active menu; a MenuList that is left has selected = 0 and start_row = 0
\* afterwards (a FreqencyChoice drops its pending choice); every other list,
\* the parent included, keeps its selected and start_row, and the parent's
\* viewport is redrawn in full with them.
C23_CancelPops ==
    [][\A th \in Threads :
        /\ (MenuKey(th) /\ thr[th].key = "CANCEL" /\ nav.current_menu # "none"
              /\ Parent[nav.current_menu] # "none") =>
              LET cm == nav.current_menu
                  par == Parent[cm] IN
              /\ thr'[th].ret = par
              /\ cm \in Lists => lists'[cm] = [selected |-> 0, start_row |-> 0]
              /\ cm = "freq" => freq'.new_frequency = freq.current_frequency
              /\ \A l \in Lists \ {cm} : lists'[l] = lists[l]
              /\ draws' = FullRedrawOf(par)
        /\ (AssignMenu(th) /\ thr[th].key = "CANCEL" /\ thr[th].ret # "none") =>
              /\ nav'.current_menu = thr[th].ret
              /\ lists' = lists
      ]_vars

\* Cancel on "sub" on a display of two rows: "sub" is reset, "root" is
\* returned and its first two rows are redrawn.
C23_Witness ==
    /\ thr["click"].pc = "assign"
    /\ thr["click"].key = "CANCEL"
    /\ nav.current_menu = "sub"
    /\ thr["click"].ret = "root"
    /\ thr["click"].seen[2]["sub"] = [selected |-> 0, start_row |-> 0]
    /\ draws = <<[op |-> "print_lines", first |-> 0, count |-> 2, highlight |-> 0]>>

\* C24: Cancel on the root menu returns no menu and draws nothing; Interface
\* then stores None as the active menu and calls show_data, which sets the
\* view to DATE, resets the view timer (finished is set, the interval kept) and
\* has display_view clear the display and draw the DATE view.
C24_CancelAtRoot ==
    [][\A th \in Threads :
        /\ (MenuKey(th) /\ thr[th].key = "CANCEL" /\ nav.current_menu = "root") =>
              /\ thr'[th].ret = "none"
              /\ draws' = <<>>
        /\ (AssignMenu(th) /\ thr[th].ret = "none") =>
              /\ nav'.current_menu = "none"
              /\ thr'[th].pc = "show_data"
        /\ ShowData(th) =>
              /\ nav'.current_menu = "none"
              /\ nav'.view = 0
              /\ rtimer'.finished
              /\ rtimer'.interval = rtimer.interval
              /\ thr'[th].pc = "view_enter"
        /\ (DisplayViewDraw(th) /\ nav.view = 0) =>
              /\ draws' = <<[op |-> "clear"], [op |-> "view", item |-> 0]>>
              /\ nav' = nav
              /\ thr'[th].pc = "view_exit"
      ]_vars

\* A short Cancel with the display on reached display_view: the root menu was
\* active and is closed, the DATE view is drawn.
C24_Witness ==
    /\ thr["click"].pc = "view_exit"
    /\ thr["click"].key = "CANCEL"
    /\ thr["click"].after = "exit"
    /\ nav.current_menu = "none"
    /\ nav.view = 0
    /\ rtimer.finished
    /\ draws = <<[op |-> "clear"], [op |-> "view", item |-> 0]>>

\* ------------------------------------------------------------------------
\* Keys that do nothing (checked under SpecMenuList)
\* ------------------------------------------------------------------------

\* C25: on an empty MenuList Up, Down and Confirm, and on a MenuList of one
\* element Up and Down, leave selected and start_row alone, return the list
\* itself, make no display call and leave the terminal as it was.
C25_NoOpKeys ==
    [][/\ ((Up \/ Down \/ Confirm) /\ menu.n = 0) =>
            /\ menu' = menu
            /\ draws' = <<>>
            /\ screen' = screen
       /\ ((Up \/ Down) /\ menu.n = 1) =>
            /\ menu' = menu
            /\ draws' = <<>>
            /\ screen' = screen
       /\ menu.n = 0 => \A key \in {"UP", "DOWN", "OK"} :
                           MenuList_key_press(menu, key, rows).ret = "self"
       /\ menu.n = 1 => \A key \in {"UP", "DOWN"} :
                           MenuList_key_press(menu, key, rows).ret = "self"
      ]_vars

\* Down was pressed twice on an empty list.
C25_Witness ==
    /\ menu.n = 0
    /\ downs = 2
    /\ draws = <<>>
    /\ menu.selected = 0

\* ------------------------------------------------------------------------
\* Properties of Interface as a whole (checked under SpecInterface)
\* ------------------------------------------------------------------------

\* The nodes from the root down to `node`
RECURSIVE PathTo(_)
PathTo(node) == IF node = "none" THEN {} ELSE {node} \cup PathTo(Parent[node])

\* C36: in every reachable state every MenuList that is not on the path from
\* the root to the active menu has selected = 0 and start_row = 0; with no
\* active menu this holds for every list.
C36_ListsOffPathAreReset ==
    \A l \in Lists \ PathTo(nav.current_menu) :
        lists[l] = [selected |-> 0, start_row |-> 0]

\* A click of Cancel has just left the list "sub": the root is active again,
\* with its selection on "sub", and "sub" is off the path.
C36_Witness ==
    /\ thr["click"].pc = "exit"
    /\ thr["click"].key = "CANCEL"
    /\ thr["click"].ret = "root"
    /\ nav.current_menu = "root"
    /\ rows = 2
    /\ Len(draws) = 0
    /\ lists["root"] = [selected |-> 0, start_row |-> 0]
    /\ lists["sub"] = [selected |-> 0, start_row |-> 0]

\* C37: a step of the view timer's thread taken while a menu is active or the
\* display is off changes neither the view, the active menu, any selection
\* or viewport, nor what the display shows, and issues no display call; the
\* thread is then at the test of next_view or on its way out, never inside
\* display_view.
C37_TickLeavesMenuAlone ==
    [][(thr'["view"] # thr["view"] /\ (nav.current_menu # "none" \/ nav.display_off))
         => /\ nav' = nav
            /\ lists' = lists
            /\ freq' = freq
            /\ on_off' = on_off
            /\ disp'.pending = disp.pending
            /\ disp'.backlight = disp.backlight
            /\ disp'.context_manager_depth = disp.context_manager_depth
            /\ draws' = <<>>
            /\ thr'["view"].pc \in {"nv_branch", "release", "idle"}]_vars

\* A tick inside an open submenu whose selection has moved: next_view has
\* made its test and is about to return.
C37_Witness ==
    /\ thr["view"].pc = "release"
    /\ nav.current_menu = "sub"
    /\ lists["sub"].selected = 2
    /\ nav.view = 0
    /\ ilock.owner = "view"

\* C38: when key_press of a long-press Cancel returns, no menu is active,
\* display_off is true and the display is turned off, whatever was open
\* before; no step of key_press for a long press of another key changes the
\* navigation state, a list, the FreqencyChoice, the OnOffConfig leaf or what
\* the display shows.
C38_LongPress ==
    [][\A th \in Threads :
          LET call == IF thr[th].pc = "idle" THEN thr'[th] ELSE thr[th] IN
          (thr'[th] # thr[th] /\ call.long) =>
              IF call.key = "CANCEL"
              THEN thr'[th].pc = "idle" =>
                      /\ nav'.current_menu = "none"
                      /\ nav'.display_off
                      /\ ~disp'.backlight
              ELSE /\ nav' = nav
                   /\ lists' = lists
                   /\ freq' = freq
                   /\ on_off' = on_off
                   /\ disp'.pending = disp.pending
                   /\ disp'.backlight = disp.backlight
                   /\ draws' = <<>>]_vars

\* key_press of a long-press Cancel is about to return with the display off
\* and no menu active, the idle view having been advanced before.
C38_Witness ==
    /\ thr["long"].pc = "exit"
    /\ thr["long"].key = "CANCEL"
    /\ nav.current_menu = "none"
    /\ nav.display_off
    /\ nav.view = 2
    /\ ~disp.backlight

\* C39: key_press of a short click that finds the display off, whatever the
\* key: no step of it opens a menu or changes a list, the FreqencyChoice or
\* the OnOffConfig leaf; its display_view draws the DATE view; when it
\* returns display_off is false, the display is turned on, no menu is active
\* and the view is DATE.
C39_ClickOnlyWakes ==
    [][\A th \in Threads :
          LET waking == \/ thr[th].pc = "branch" /\ ~thr[th].long /\ nav.display_off
                        \/ thr[th].after = "turn_on"
          IN (thr'[th] # thr[th] /\ waking) =>
                /\ nav'.current_menu = "none"
                /\ lists' = lists
                /\ freq' = freq
                /\ on_off' = on_off
                /\ thr[th].pc = "view_draw" =>
                      /\ draws' = <<[op |-> "clear"], [op |-> "view", item |-> 0]>>
                      /\ thr'[th].pc = "view_exit"
                /\ thr'[th].pc = "idle" =>
                      /\ nav' = [current_menu |-> "none", display_off |-> FALSE,
                                  view |-> 0]
                      /\ disp'.backlight
                      /\ disp'.pending = 0]_vars

\* A click of OK found the display off; key_press is about to return: the
\* display is on, the view is DATE and no menu is open.
C39_Witness ==
    /\ thr["click"].pc = "exit"
    /\ thr["click"].after = "turn_on"
    /\ thr["click"].key = "OK"
    /\ ~nav.display_off
    /\ nav.current_menu = "none"
    /\ nav.view = 0
    /\ disp.backlight

C12_GetAfterUpdateIsCacheHit ==
    \A t \in CThreads :
        (/\ cthr[t].pc = "done"
         /\ cthr[t].op = "get"
         /\ cthr[t].wrote # None
         /\ cthr[t].key = UpdateKey[t])
        => /\ cthr[t].result = cthr[t].wrote
           /\ ~cthr[t].parsed

\* A get of the key just written to the sensor config has its result.
C12_Witness ==
    \E t \in CThreads :
        /\ cthr[t].pc = "done"
        /\ cthr[t].op = "get"
        /\ cthr[t].wrote # None
        /\ cthr[t].key = UpdateKey[t]
        /\ ~display_config
        /\ file.content[cthr[t].key] = cthr[t].wrote

\* C13 (checked under SpecWatcher): a direct reader of the file never finds it
\* empty or partly written.
C13_NeverTorn == observed.read # "torn"

\* C14: at most one thread is inside ConfigManager at a time, and when no
\* call is under way and nothing has failed or interfered, the file and the
\* cached table hold the initial keys overridden by every update made.
C14_UpdatesSerializedAndMerged ==
    /\ Cardinality({t \in CThreads : cthr[t].pc # "idle"}) <= 1
    /\ ((\A t \in CThreads : cthr[t].pc = "idle") /\ faults = 0)
       => /\ file.content = want
          /\ ~file.torn
          /\ cache.cached => cache.config = want

\* Both threads have updated their key (only p writes "a", only q writes "b",
\* and the file had neither at first) and both have returned.
C14_Witness ==
    /\ \A t \in CThreads : cthr[t].pc = "idle"
    /\ faults = 0
    /\ file.content["a"] # None
    /\ file.content["b"] # None
    /\ cache.cached
    /\ cache.config = file.content

\* What a get_config_value that nothing disturbed found on entry, and what it did
GetDone(t) ==
    /\ cthr[t].pc = "done"
    /\ cthr[t].op = "get"
    /\ ~cthr[t].disturbed

\* C15 as stated: every entry is read again exactly when no table is cached
\* or the modification times differ, and then the value of the file is returned.
C15_ReloadAsStated ==
    \A t \in CThreads :
        GetDone(t) =>
            /\ cthr[t].parsed <=> (~cthr[t].was.cached \/ ~cthr[t].was.same)
            /\ ~cthr[t].was.same => cthr[t].result = file.content[cthr[t].key]

\* C15: the sensor entry is read again exactly when no table is cached or the
\* modification times differ, and then the value of the file is returned; the
\* display entry is read exactly when no table is cached, and a cached table
\* is returned whatever the modification time of the file.
C15_Reload ==
    \A t \in CThreads :
        GetDone(t) =>
            IF display_config
            THEN /\ cthr[t].parsed <=> ~cthr[t].was.cached
                 /\ cthr[t].was.cached => cthr[t].result = cache.config[cthr[t].key]
            ELSE /\ cthr[t].parsed <=> (~cthr[t].was.cached \/ ~cthr[t].was.same)
                 /\ cthr[t].parsed => cthr[t].result = file.content[cthr[t].key]
                 /\ ~cthr[t].parsed => cthr[t].result = cache.config[cthr[t].key]

\* A get found the sensor config cached with another modification time and
\* read the file again.
C15_Witness ==
    \E t \in CThreads :
        /\ GetDone(t)
        /\ ~display_config
        /\ cthr[t].was.cached
        /\ ~cthr[t].was.same
        /\ cthr[t].parsed

\* C16: when no call is under way, a cached table is the content the file
\* had at the stored modification time.
C16_TableMatchesFile ==
    ((\A t \in CThreads : cthr[t].pc = "idle") /\ cache.cached)
    => cache.config = cache.at

\* C26: a get_config_value that meets an I/O failure (the file is missing or
\* cannot be read) while a table is cached returns the cached value and
\* leaves the cached table and the stored modification time alone.
C26_StaleValueOnFailure ==
    \A t \in CThreads :
        (/\ cthr[t].pc = "done"
         /\ cthr[t].op = "get"
         /\ cthr[t].was.cached
         /\ cthr[t].io # "ok")
        => /\ cthr[t].result = cthr[t].was.config[cthr[t].key]
           /\ cache.config = cthr[t].was.config
           /\ cache.st_mtime = cthr[t].was.st_mtime

\* C27: an update_config_values that meets an I/O failure raises, and the
\* cache entry is as it was when the call began.
C27_FailedUpdateKeepsCache ==
    \A t \in CThreads :
        (/\ cthr[t].pc = "done"
         /\ cthr[t].op = "update"
         /\ cthr[t].io # "ok")
        => /\ cthr[t].raised
           /\ cache.cached = cthr[t].was.cached
           /\ cache.config = cthr[t].was.config
           /\ cache.st_mtime = cthr[t].was.st_mtime

\* C28: a get_config_value of a key the file does not hold, with the file
\* readable and unchanged during the call, returns None and does not raise;
\* afterwards the entry holds the table the call worked on, and an entry that
\* was current when the call began is the same table with the same time, not
\* read again.
C28_MissingKeyIsNone ==
    \A t \in CThreads :
        (/\ cthr[t].pc = "done"
         /\ cthr[t].op = "get"
         /\ cthr[t].io = "ok"
         /\ ~cthr[t].disturbed
         /\ cthr[t].local[cthr[t].key] = None)
        => /\ cthr[t].result = None
           /\ ~cthr[t].raised
           /\ cache.cached
           /\ cache.config = cthr[t].local
           /\ (cthr[t].was.cached /\ (display_config \/ cthr[t].was.same)) =>
                 /\ ~cthr[t].parsed
                 /\ cache.config = cthr[t].was.config
                 /\ cache.st_mtime = cthr[t].was.st_mtime

\* A get of the key "b", which the file does not hold, returned None from the
\* cached table; the key "c" of the same table is still there.
C28_Witness ==
    \E t \in CThreads :
        /\ cthr[t].pc = "done"
        /\ cthr[t].op = "get"
        /\ cthr[t].io = "ok"
        /\ ~cthr[t].disturbed
        /\ cthr[t].key = "b"
        /\ cthr[t].was.cached
        /\ cthr[t].result = None
        /\ cache.config["b"] = None
        /\ cache.config["c"] # None


\* ------------------------------------------------------------------------
\* Properties of the config watcher (checked under SpecWatcher)
\* ------------------------------------------------------------------------

\* C30: a tick of the config watcher that found the file's modification time
\* different from last_mtime sets the interval of every sensor timer whose
\* key the file holds to the file's value, leaves the ConfigManager cache
\* alone and returns, so that the watcher is there for the next change; a
\* tick that found the modification time unchanged changes nothing.
C30_TickAppliesChange ==
    [][/\ (observed.pc = "read" /\ observed'.pc # "read")
          => /\ observed'.pc = "idle"
             /\ \A k \in ConfigKeys :
                   file.content[k] # None
                       => observed'.interval[k] = file.content[k]
             /\ cache' = cache
       /\ (observed.pc = "idle" /\ observed'.pc = "idle")
          => observed' = observed]_vars

\* ------------------------------------------------------------------------
\* Properties of the locks (checked under SpecLocks)
\* ------------------------------------------------------------------------

HoldsLock(th, l) == \E i \in 1..Len(lk[th].held) : lk[th].held[i] = l

\* What thread th does next, <<"none", "none">> outside a call.
NextOp(th) == IF lk[th].prog = <<>> THEN <<"none", "none">> ELSE Head(lk[th].prog)

\* th is about to do blocking file I/O: read or write the config file, or
\* take the advisory lock.
AtFileIO(th) == NextOp(th) \in {<<"io", "read">>, <<"io", "write">>, <<"acq", "file">>}

\* C32: a timer's action is invoked with that timer's internal lock
\* released, and no thread does blocking file I/O (config read, config
\* write, taking the advisory lock) while it holds the navigation lock
\* together with the internal lock of a timer.
C32_ActionAndFileIOOutsideTimerLock ==
    \A th \in DOMAIN lk :
        /\ NextOp(th)[1] = "call" => ~HoldsLock(th, NextOp(th)[2])
        /\ AtFileIO(th) =>
              ~(/\ HoldsLock(th, "nav")
                /\ HoldsLock(th, "deb_cond") \/ HoldsLock(th, "long_cond"))

\* The debounce waiter, inside its action, is about to write the sensor
\* config under the navigation lock and the advisory lock, while the
\* long-press waiter is about to invoke its action.
C32_Witness ==
    /\ NextOp("deb") = <<"io", "write">>
    /\ HoldsLock("deb", "nav")
    /\ HoldsLock("deb", "file")
    /\ NextOp("long") = <<"call", "long_cond">>

\* th is blocked: the lock it is about to take is not free.
Blocked(th) == NextOp(th)[1] = "acq" /\ ~LockFree(th, NextOp(th)[2])

\* th waits for a lock that o holds; a thread that takes Switch._lock again
\* waits for itself.
WaitsOn(th, o) ==
    /\ Blocked(th)
    /\ HoldsLock(o, NextOp(th)[2])
    /\ o # th \/ NextOp(th)[2] = "switch"

\* Lock l may be taken by a thread that holds h: l is a timer's lock under
\* the switch lock, or a later lock of the chain navigation lock, display
\* batch, config lock, advisory lock.
InOrder(h, l) ==
    LET chain == <<"nav", "batch", "cfg", "file">>
    IN  \/ h = "switch" /\ l \in {"deb_cond", "long_cond"}
        \/ \E i, j \in 1..Len(chain) : i < j /\ chain[i] = h /\ chain[j] = l

\* C35: the timer threads, the edge callback and the key handlers are
\* deadlock-free: a lock the thread does not hold yet (entering an RLock
\* again never waits) is only ever taken in the order switch lock, timer
\* lock and navigation lock, display batch, config lock, advisory file lock,
\* and in no reachable state is there a cycle of threads each waiting for a
\* lock another one holds, also when a timer is reset, stopped or cancelled
\* from inside another timer's action.
C35_LockOrderNoCycle ==
    /\ \A th \in DOMAIN lk :
          (NextOp(th)[1] = "acq" /\ ~HoldsLock(th, NextOp(th)[2])) =>
              \A i \in 1..Len(lk[th].held) : InOrder(lk[th].held[i], NextOp(th)[2])
    /\ \A S \in (SUBSET {th \in DOMAIN lk : Blocked(th)}) \ {{}} :
          \E th \in S : \A o \in S : ~WaitsOn(th, o)

\* The debounce waiter, in its action, waits for the lock of the long-press
\* timer, which the long-press waiter holds; the edge callback holds the
\* switch lock and waits for the lock of the debounce timer, which the
\* thread of clean() holds; the view waiter is inside its action too.
C35_Witness ==
    /\ WaitsOn("deb", "long")
    /\ HoldsLock("edge", "switch")
    /\ WaitsOn("edge", "main")
    /\ HoldsLock("view", "nav")

====
